---- MODULE Spec2Model ----
(***************************************************************************)
(* A model of the POD parser of pod.cpp / pod.hpp.                         *)
(*                                                                         *)
(* A std::string is a sequence of one-character strings.  The parser       *)
(* object is the record Self of its member fields; every private method    *)
(* of PodParser is an operator from such a record to the record after the  *)
(* call.  The field `fault' carries an exception that leaves the method    *)
(* ("exception") or a crash of undefined behaviour ("crash").              *)
(***************************************************************************)
EXTENDS Integers, Sequences, FiniteSets, TLC

VARIABLES
    pc,                     \* position of the caller in PodParser::Parse
    ss_pos,                 \* read position of the stringstream `ss' (0-based)
    cerr,                   \* the warnings written to std::cerr
    m_lino,
    m_mode,
    m_link_bar_found,
    m_source_markup,
    m_verbatim_lead_space,
    m_tokens,
    m_current_buffer,
    m_data_end_tag,
    m_data_args,
    m_idx_keywords,
    m_ecode,
    m_idx_kw,
    m_link_content,
    result,                 \* the string the last call of FormatHTML returned
    calls,                  \* the callbacks that call of FormatHTML made
    renders,                \* the calls of FormatHTML made so far
    resets,                 \* the calls of Reset made so far
    other                   \* a second parser instance, if there is one

vars == <<pc, ss_pos, cerr, m_lino, m_mode, m_link_bar_found, m_source_markup,
          m_verbatim_lead_space, m_tokens, m_current_buffer, m_data_end_tag,
          m_data_args, m_idx_keywords, m_ecode, m_idx_kw, m_link_content,
          result, calls, renders, resets, other>>

----------------------------------------------------------------------------
(* Strings *)

\* what operator[] returns at index size(): the terminating '\0'
NUL == "NUL"

\* str[pos] with a 0-based position, as std::string::operator[]
At(str, pos) == IF pos < Len(str) THEN str[pos + 1] ELSE NUL

\* str.substr(pos): the caller has checked pos <= size()
SubstrFrom(str, pos) == SubSeq(str, pos + 1, Len(str))

\* str.substr(pos, n): clamped at the end of the string
Substr(str, pos, n) ==
    SubSeq(str, pos + 1, IF pos + n > Len(str) THEN Len(str) ELSE pos + n)

\* std::string(n, ch)
Repeat(ch, n) == [i \in 1..n |-> ch]

RECURSIVE Concat(_)
Concat(strs) == IF strs = <<>> THEN <<>> ELSE Head(strs) \o Concat(Tail(strs))

\* std::replace(begin, end, from, to)
Replace(str, from, to) == [i \in 1..Len(str) |-> IF str[i] = from THEN to ELSE str[i]]

\* str.find(ch): the 0-based position of the first ch, or -1 for npos
Find(str, ch) ==
    IF \E i \in 1..Len(str) : str[i] = ch
    THEN (CHOOSE i \in 1..Len(str) : str[i] = ch /\ \A j \in 1..(i - 1) : str[j] # ch) - 1
    ELSE -1

\* str.rfind(ch): the 0-based position of the last ch, or -1 for npos
RFind(str, ch) ==
    IF \E i \in 1..Len(str) : str[i] = ch
    THEN (CHOOSE i \in 1..Len(str) : str[i] = ch /\ \A j \in (i + 1)..Len(str) : str[j] # ch) - 1
    ELSE -1

IsSpace(ch) == ch \in {" ", "\t", "\n"}

DigitChars == <<"0", "1", "2", "3", "4", "5", "6", "7", "8", "9">>

IsDigit(ch) == \E d \in 1..Len(DigitChars) : DigitChars[d] = ch

DigitValue(ch) == (CHOOSE d \in 1..Len(DigitChars) : DigitChars[d] = ch) - 1

----------------------------------------------------------------------------
(* Helpers (namespace Pod) *)

\* the tabs not counted
RECURSIVE count_leading_whitespace_no_tabs(_)
count_leading_whitespace_no_tabs(str) ==
    IF At(str, 0) = " " THEN 1 + count_leading_whitespace_no_tabs(Tail(str)) ELSE 0

RECURSIVE count_leading_whitespace(_)
count_leading_whitespace(str) ==
    IF At(str, 0) = " " \/ At(str, 0) = "\t"
    THEN 1 + count_leading_whitespace(Tail(str))
    ELSE 0

RECURSIVE join_vectorstr(_, _)
join_vectorstr(vec, separator) ==
    IF vec = <<>> THEN <<>>
    ELSE IF Len(vec) = 1 THEN vec[1]
    ELSE vec[1] \o separator \o join_vectorstr(Tail(vec), separator)

\* every occurrence of ch in str replaced by the string rep
RECURSIVE ReplaceAll(_, _, _)
ReplaceAll(str, ch, rep) ==
    IF str = <<>> THEN <<>>
    ELSE (IF Head(str) = ch THEN rep ELSE <<Head(str)>>) \o ReplaceAll(Tail(str), ch, rep)

AMP == <<"&", "a", "m", "p", ";">>
LT == <<"&", "l", "t", ";">>
GT == <<"&", "g", "t", ";">>
NBSP == <<"&", "n", "b", "s", "p", ";">>

\* the first loop of html_escape stops as soon as the first "&" of the string
\* starts "&amp;", which is the case after its first replacement
EscapeAmp(str) ==
    LET pos == Find(str, "&") IN
    IF pos = -1 \/ Substr(str, pos, 5) = AMP THEN str
    ELSE SubSeq(str, 1, pos) \o AMP \o SubstrFrom(str, pos + 1)

\* html_escape without the masking of '>'
html_escape_keeps_gt(str, nbsp) ==
    IF nbsp THEN ReplaceAll(ReplaceAll(EscapeAmp(str), "<", LT), " ", NBSP)
    ELSE ReplaceAll(EscapeAmp(str), "<", LT)

\* html_escape: '&', then '<', then '>', then the spaces if nbsp
html_escape(str, nbsp) ==
    LET s1 == EscapeAmp(str)
        s2 == ReplaceAll(s1, "<", LT)
        s3 == ReplaceAll(s2, ">", GT)
    IN IF nbsp THEN ReplaceAll(s3, " ", NBSP) ELSE s3

\* std::istream_iterator<std::string> over the string: its whitespace-separated words
RECURSIVE SplitWords(_, _)
SplitWords(str, word) ==
    IF str = <<>> THEN (IF word = <<>> THEN <<>> ELSE <<word>>)
    ELSE IF IsSpace(Head(str))
         THEN (IF word = <<>> THEN <<>> ELSE <<word>>) \o SplitWords(Tail(str), <<>>)
         ELSE SplitWords(Tail(str), Append(word, Head(str)))

\* std::stof: the value of the longest prefix that is a number.  The documents of this model hold decimal digits only (no sign,
\* no '.', no exponent, no "inf"/"nan"), for which the prefix is the leading digits.
RECURSIVE DigitsValue(_, _)
DigitsValue(str, acc) ==
    IF str # <<>> /\ IsDigit(Head(str))
    THEN DigitsValue(Tail(str), 10 * acc + DigitValue(Head(str)))
    ELSE acc

\* std::stof throws std::invalid_argument when no conversion can be performed
stof_throws(str) == ~IsDigit(At(str, 0))

stof(str) == DigitsValue(str, 0)

----------------------------------------------------------------------------
(* Pod nodes *)

unordered == "unordered"
ordered == "ordered"
description == "description"

PodNodeHeadStart(level, content) == [k |-> "HeadStart", m_level |-> level, m_content |-> content]
PodNodeHeadEnd(level) == [k |-> "HeadEnd", m_level |-> level]
PodNodeOver(indent) == [k |-> "Over", m_indent |-> indent, m_list_type |-> unordered]
PodNodeItemEnd(t) == [k |-> "ItemEnd", m_list_type |-> t]
PodNodeBack(t) == [k |-> "Back", m_list_type |-> t]
PodNodeParaStart == [k |-> "ParaStart"]
PodNodeParaEnd == [k |-> "ParaEnd"]
PodNodeInlineMarkupStart(type) ==
    [k |-> "InlineMarkupStart", m_mtype |-> type, m_args |-> <<>>, m_cb |-> FALSE]
PodNodeInlineMarkupEnd(type, args) == [k |-> "InlineMarkupEnd", m_mtype |-> type, m_args |-> args]
PodNodeInlineText(text) == [k |-> "InlineText", m_text |-> text]
PodNodeData(data, arguments) == [k |-> "Data", m_data |-> data, m_arguments |-> arguments]
PodNodeVerbatim(text) == [k |-> "Verbatim", m_text |-> text]

\* PodNodeItemStart::PodNodeItemStart: the list type comes from the label
ListTypeOfLabel(label) ==
    IF At(label, 0) = "*" THEN unordered
    ELSE IF IsDigit(At(label, 0)) THEN ordered
    ELSE description

PodNodeItemStart(label) ==
    [k |-> "ItemStart", m_label |-> label, m_list_type |-> ListTypeOfLabel(label)]

\* the default argument of PodNodeOver::PodNodeOver
DefaultIndent == 4

\* dynamic_cast<PodNodeX*>(node) is not null
Is(node, kind) == node.k = kind

----------------------------------------------------------------------------
(* Lookups over m_tokens *)

Last(seq) == seq[Len(seq)]

RemoveAt(seq, i) == SubSeq(seq, 1, i - 1) \o SubSeq(seq, i + 1, Len(seq))

\* the nearest ItemStart of any depth, no further back than the nearest Over
RECURSIVE FindItemFrom_any_depth(_, _, _)
FindItemFrom_any_depth(tokens, i, level) ==
    IF i = 0 THEN 0
    ELSE IF Is(tokens[i], "Over") THEN 0
    ELSE IF Is(tokens[i], "ItemStart") THEN i
    ELSE FindItemFrom_any_depth(tokens, i - 1, level)

\* the reverse loop of find_preceeding_item from index i down; 0 is nullptr
RECURSIVE FindItemFrom(_, _, _)
FindItemFrom(tokens, i, level) ==
    IF i = 0 THEN 0
    ELSE IF Is(tokens[i], "Back") THEN FindItemFrom(tokens, i - 1, level + 1)
    ELSE IF Is(tokens[i], "Over")
         THEN (IF level = 0 THEN 0 ELSE FindItemFrom(tokens, i - 1, level - 1))
    ELSE IF level = 0 /\ Is(tokens[i], "ItemStart") THEN i
    ELSE FindItemFrom(tokens, i - 1, level)

find_preceeding_item(tokens) == FindItemFrom(tokens, Len(tokens), 0)

\* the nearest Over, whether or not a Back has closed it
RECURSIVE FindOverFrom_nearest(_, _, _)
FindOverFrom_nearest(tokens, i, level) ==
    IF i = 0 THEN 0
    ELSE IF Is(tokens[i], "Over") THEN i
    ELSE FindOverFrom_nearest(tokens, i - 1, level)

\* the reverse loop of find_preceeding_over from index i down; 0 is nullptr
RECURSIVE FindOverFrom(_, _, _)
FindOverFrom(tokens, i, level) ==
    IF i = 0 THEN 0
    ELSE IF Is(tokens[i], "Back") THEN FindOverFrom(tokens, i - 1, level + 1)
    ELSE IF Is(tokens[i], "Over")
         THEN (IF level = 0 THEN i ELSE FindOverFrom(tokens, i - 1, level - 1))
    ELSE FindOverFrom(tokens, i - 1, level)

find_preceeding_over(tokens) == FindOverFrom(tokens, Len(tokens), 0)

\* the nearest InlineMarkupStart of type t, whether or not it has been closed
RECURSIVE FindMarkupStartFrom_nearest(_, _, _, _)
FindMarkupStartFrom_nearest(tokens, t, i, level) ==
    IF i = 0 THEN 0
    ELSE IF Is(tokens[i], "InlineMarkupStart") /\ (t = "none" \/ tokens[i].m_mtype = t)
         THEN i
    ELSE FindMarkupStartFrom_nearest(tokens, t, i - 1, level)

\* the reverse loop of find_preceeding_inline_markup_start from index i down;
\* 0 stands for the std::runtime_error thrown after the loop
RECURSIVE FindMarkupStartFrom(_, _, _, _)
FindMarkupStartFrom(tokens, t, i, level) ==
    IF i = 0 THEN 0
    ELSE IF Is(tokens[i], "InlineMarkupEnd") THEN FindMarkupStartFrom(tokens, t, i - 1, level + 1)
    ELSE IF level > 0 /\ Is(tokens[i], "InlineMarkupStart")
         THEN FindMarkupStartFrom(tokens, t, i - 1, level - 1)
    ELSE IF level = 0 /\ Is(tokens[i], "InlineMarkupStart")
              /\ (t = "none" \/ tokens[i].m_mtype = t)
         THEN i
    ELSE FindMarkupStartFrom(tokens, t, i - 1, level)

find_preceeding_inline_markup_start(tokens, t) ==
    FindMarkupStartFrom(tokens, t, Len(tokens), 0)

\* level is raised by every start of type t and lowered by every end of type t,
\* over the whole of m_tokens
is_inline_mode_active(tokens, t) ==
    LET starts == {i \in 1..Len(tokens) :
                      Is(tokens[i], "InlineMarkupStart") /\ tokens[i].m_mtype = t}
        ends == {i \in 1..Len(tokens) :
                      Is(tokens[i], "InlineMarkupEnd") /\ tokens[i].m_mtype = t}
    IN Cardinality(starts) - Cardinality(ends) > 0

IsZapStart(tok) == Is(tok, "InlineMarkupStart") /\ tok.m_mtype = "zap"

IsZapEnd(tok) == Is(tok, "InlineMarkupEnd") /\ tok.m_mtype = "zap"

\* zap_tokens, lines 703-720: the level after the token
ZapLevel(tok, level) ==
    IF IsZapStart(tok) THEN level + 1
    ELSE IF IsZapEnd(tok) THEN level - 1
    ELSE level

\* an erasure that leaves the text nodes of a span
ZapErases_keeps_text(tok, level) ==
    IF Is(tok, "InlineMarkupStart") THEN IsZapStart(tok) /\ level > 0
    ELSE IF Is(tok, "InlineMarkupEnd") THEN IsZapEnd(tok) /\ level - 1 > 0
    ELSE FALSE

\* an erasure that leaves the Zap ends of a span
ZapErases_keeps_ends(tok, level) ==
    IF Is(tok, "InlineMarkupStart") THEN IsZapStart(tok) /\ level > 0
    ELSE IF Is(tok, "InlineMarkupEnd") THEN FALSE
    ELSE level > 0

\* zap_tokens, lines 703-723: the flag `erase' after the token
ZapErases(tok, level) ==
    IF Is(tok, "InlineMarkupStart") THEN IsZapStart(tok) /\ level > 0
    ELSE IF Is(tok, "InlineMarkupEnd") THEN IsZapEnd(tok) /\ level - 1 > 0
    ELSE level > 0

\* a zap pass that the end of a block does not stop
RECURSIVE ZapFrom_through_blocks(_, _, _)
ZapFrom_through_blocks(tokens, i, level) ==
    IF i > Len(tokens) THEN tokens
    ELSE IF ZapErases(tokens[i], level)
         THEN ZapFrom_through_blocks(RemoveAt(tokens, i), i, ZapLevel(tokens[i], level))
         ELSE ZapFrom_through_blocks(tokens, i + 1, ZapLevel(tokens[i], level))

\* the loop of zap_tokens with the iterator at index i
RECURSIVE ZapFrom(_, _, _)
ZapFrom(tokens, i, level) ==
    IF i > Len(tokens) THEN tokens
    ELSE LET tok == tokens[i] IN
    IF level > 0 /\ (Is(tok, "HeadEnd") \/ Is(tok, "ItemEnd") \/ Is(tok, "ParaEnd"))
    THEN ZapFrom(tokens, i + 1, 0)
    ELSE IF ZapErases(tok, level)
         THEN ZapFrom(RemoveAt(tokens, i), i, ZapLevel(tok, level))
         ELSE ZapFrom(tokens, i + 1, ZapLevel(tok, level))

zap_tokens(tokens) == ZapFrom(tokens, 1, 0)

----------------------------------------------------------------------------
(* PodParser: the inline markup engine *)

Warn(p, what) == [p EXCEPT !.cerr = Append(@, <<p.m_lino, what>>)]

PushToken(p, node) == [p EXCEPT !.m_tokens = Append(@, node)]

\* what follows a call that can leave by an exception: the node is not pushed
PushUnlessFault(p, node) == IF p.fault # "none" THEN p ELSE PushToken(p, node)

\* the number of consecutive ch in para from the 0-based position pos on
RECURSIVE CountRun(_, _, _)
CountRun(para, pos, ch) ==
    IF At(para, pos) = ch THEN 1 + CountRun(para, pos + 1, ch) ELSE 0

\* the switch over the character in front of the angle brackets
MtypeOfLetter(ch) ==
    CASE ch = "I" -> "italic"
      [] ch = "B" -> "bold"
      [] ch = "C" -> "code"
      [] ch = "F" -> "filename"
      [] ch = "X" -> "index"
      [] ch = "Z" -> "zap"
      [] ch = "L" -> "link"
      [] ch = "E" -> "escape"
      [] ch = "S" -> "nbsp"
      [] OTHER -> "none"

KnownLetters == {"I", "B", "C", "F", "X", "Z", "L", "E", "S"}

\* PodNodeInlineText::StripTrailingWhitespace
RECURSIVE StripTrailingWhitespace(_)
StripTrailingWhitespace(text) ==
    IF text # <<>> /\ Last(text) = " "
    THEN StripTrailingWhitespace(SubSeq(text, 1, Len(text) - 1))
    ELSE text

\* the loop of StripTrailingWhitespace ends up reading m_text[npos]
StripReadsOutside(text) == \A i \in 1..Len(text) : text[i] = " "

\* m_tokens.back() is a PodNodeInlineText: AddText, else a new text node
AddInlineText(p, s) ==
    IF Is(Last(p.m_tokens), "InlineText")
    THEN [p EXCEPT !.m_tokens[Len(p.m_tokens)].m_text = @ \o s]
    ELSE PushToken(p, PodNodeInlineText(s))

\* parse_inline, lines 408-419
NestingWarning(p) ==
    IF is_inline_mode_active(p.m_tokens, "zap") THEN Warn(p, "Z<> nested")
    ELSE IF is_inline_mode_active(p.m_tokens, "escape") THEN Warn(p, "E<> nested")
    ELSE IF is_inline_mode_active(p.m_tokens, "index") THEN Warn(p, "X<> nested")
    ELSE IF p.m_link_bar_found THEN Warn(p, "L<> target nested")
    ELSE p

\* parse_inline, lines 459-463
UnknownCodeWarning(p, letter) ==
    IF letter \in KnownLetters THEN p ELSE Warn(p, "unknown formatting code")

\* parse_inline, lines 408-470: pos is the position of the last '<' of the run
InlineOpenRun(p, para, pos, stack, angle_count) ==
    [p |-> PushToken(UnknownCodeWarning(NestingWarning(p), At(para, pos - angle_count)),
                     PodNodeInlineMarkupStart(MtypeOfLetter(At(para, pos - angle_count)))),
     pos |-> pos + CountRun(para, pos + 1, " "),
     stack |-> Append(stack, [angle_count |-> angle_count,
                              type |-> MtypeOfLetter(At(para, pos - angle_count))])]

\* parse_inline, lines 400-407: para[pos+1] is '<', the angles are counted
InlineOpenCount(p, para, pos, stack, angle_count) ==
    InlineOpenRun(p, para, pos + angle_count, stack, angle_count)

InlineOpen(p, para, pos, stack) ==
    InlineOpenCount(p, para, pos, stack, CountRun(para, pos + 1, "<"))

\* parse_inline, lines 503-511: the link's start node gets the link content
LinkEndMarker(p, lstart) ==
    IF lstart = 0 THEN [p EXCEPT !.fault = "exception"]
    ELSE [p EXCEPT
            !.m_tokens = Append([@ EXCEPT ![lstart].m_args = Append(@, p.m_link_content),
                                          ![lstart].m_cb = TRUE],
                                PodNodeInlineMarkupEnd("link", <<>>)),
            !.m_link_bar_found = FALSE,
            !.m_link_content = <<>>]

\* parse_inline, lines 495-501: the index keyword is recorded
IndexEndMarker(p, target) ==
    [PushToken(p, PodNodeInlineMarkupEnd("index", <<target>>)) EXCEPT
        !.m_idx_keywords = {e \in @ : e[1] # p.m_idx_kw} \cup {<<p.m_idx_kw, target>>},
        !.m_idx_kw = <<>>]

\* parse_inline, lines 490-516: the end marker of a closed frame
InlineEndMarker(p, type) ==
    CASE type = "escape" ->
            [PushToken(p, PodNodeInlineMarkupEnd(type, <<p.m_ecode>>)) EXCEPT !.m_ecode = <<>>]
      [] type = "index" -> IndexEndMarker(p, Replace(p.m_idx_kw, " ", "_"))
      [] type = "link" ->
            LinkEndMarker(p, find_preceeding_inline_markup_start(p.m_tokens, "link"))
      [] OTHER -> PushToken(p, PodNodeInlineMarkupEnd(type, <<>>))

\* parse_inline, lines 486-487
StripPreceedingText(p) ==
    IF Is(Last(p.m_tokens), "InlineText")
    THEN [p EXCEPT !.m_tokens[Len(p.m_tokens)].m_text = StripTrailingWhitespace(@)]
    ELSE p

\* StripTrailingWhitespace on a text of spaces only reads outside the string:
\* the build crashes, or finds no space there and goes on with the empty text
CloseFrame(p, type, ub) ==
    IF Is(Last(p.m_tokens), "InlineText") /\ StripReadsOutside(Last(p.m_tokens).m_text)
       /\ ub = "crash"
    THEN [p EXCEPT !.fault = "crash"]
    ELSE InlineEndMarker(StripPreceedingText(p), type)

\* parse_inline, lines 481-517: a run of '>' as long as the frame's opening run
InlineClose(p, para, pos, stack, ub) ==
    [p |-> CloseFrame(p, Last(stack).type, ub),
     pos |-> pos + Last(stack).angle_count - 1,
     stack |-> SubSeq(stack, 1, Len(stack) - 1)]

\* parse_inline, lines 530-532
StrayLinkContent(p, ch) ==
    IF is_inline_mode_active(p.m_tokens, "link")
    THEN [p EXCEPT !.m_link_content = @ \o ch]
    ELSE p

\* parse_inline, lines 518-533: fewer '>' than the frame's opening run
InlineStray(p, para, pos, stack) ==
    [p |-> StrayLinkContent(AddInlineText(p, html_escape(Substr(para, pos, 1), FALSE)),
                            Substr(para, pos, 1)),
     pos |-> pos,
     stack |-> stack]

\* parse_inline, lines 552-558
PlainLinkContent(p, ch) ==
    IF is_inline_mode_active(p.m_tokens, "link")
    THEN [p EXCEPT !.m_link_content = @ \o ch,
                   !.m_link_bar_found = IF ch = <<"|">> THEN TRUE ELSE @]
    ELSE p

\* parse_inline, lines 559-570
PlainVisible(p, ch) ==
    IF p.m_link_bar_found THEN p
    ELSE AddInlineText(p, html_escape(ch, is_inline_mode_active(p.m_tokens, "nbsp")))

\* parse_inline, lines 535-572: plain text
PlainText(p, ch) ==
    IF is_inline_mode_active(p.m_tokens, "escape") THEN [p EXCEPT !.m_ecode = @ \o ch]
    ELSE IF is_inline_mode_active(p.m_tokens, "index") THEN [p EXCEPT !.m_idx_kw = @ \o ch]
    ELSE PlainVisible(PlainLinkContent(p, ch), ch)

InlinePlain(p, para, pos, stack) ==
    [p |-> PlainText(p, Substr(para, pos, 1)), pos |-> pos, stack |-> stack]

\* one iteration of the for loop of parse_inline; pos is the position before pos++
InlineStep(p, para, pos, stack, ub) ==
    IF At(para, pos + 1) = "<" THEN InlineOpen(p, para, pos, stack)
    ELSE IF Len(stack) > 0 /\ At(para, pos) = ">"
         THEN (IF Substr(para, pos, Last(stack).angle_count) = Repeat(">", Last(stack).angle_count)
               THEN InlineClose(p, para, pos, stack, ub)
               ELSE InlineStray(p, para, pos, stack))
    ELSE InlinePlain(p, para, pos, stack)

RECURSIVE InlineLoop(_, _, _, _, _)
\* the pos++ of the for loop, after an iteration that left r
InlineNext(r, para, ub) == InlineLoop(r.p, para, r.pos + 1, r.stack, ub)

InlineLoop(p, para, pos, stack, ub) ==
    IF p.fault # "none" \/ pos >= Len(para) THEN p
    ELSE InlineNext(InlineStep(p, para, pos, stack, ub), para, ub)

\* parse_inline, line 576
ZapUnlessFault(p) == IF p.fault # "none" THEN p ELSE [p EXCEPT !.m_tokens = zap_tokens(@)]

parse_inline(p, para, ub) == ZapUnlessFault(InlineLoop(p, para, 0, <<>>, ub))

----------------------------------------------------------------------------
(* PodParser: the command dispatcher and the block handlers *)

kw_head == <<"h", "e", "a", "d">>
kw_pod == <<"p", "o", "d">>
kw_cut == <<"c", "u", "t">>
kw_over == <<"o", "v", "e", "r">>
kw_item == <<"i", "t", "e", "m">>
kw_back == <<"b", "a", "c", "k">>
kw_begin == <<"b", "e", "g", "i", "n">>
kw_end == <<"e", "n", "d">>
kw_for == <<"f", "o", "r">>
kw_encoding == <<"e", "n", "c", "o", "d", "i", "n", "g">>

\* the level of cmd if it is one of "head1" .. "head4", else 0
HeadLevel(cmd) ==
    IF Len(cmd) = 5 /\ SubSeq(cmd, 1, 4) = kw_head /\ cmd[5] \in {"1", "2", "3", "4"}
    THEN DigitValue(cmd[5])
    ELSE 0

\* parse_command, lines 219-238
HeadContent(p, level, content, ub) ==
    PushUnlessFault(parse_inline(PushToken(p, PodNodeHeadStart(level, content)), content, ub),
                    PodNodeHeadEnd(level))

CommandHead(p, command, cmd, ub) ==
    HeadContent(p, HeadLevel(cmd), SubstrFrom(command, Len(cmd) + 2), ub)

\* parse_command, lines 246-251
CommandOver(p, arguments) ==
    IF arguments = <<>> THEN PushToken(p, PodNodeOver(DefaultIndent))
    ELSE IF stof_throws(arguments[1]) THEN [p EXCEPT !.fault = "exception"]
    ELSE PushToken(p, PodNodeOver(stof(arguments[1])))

\* the normalisation of a bare "=item" only
NormaliseItemArguments_bare_only(arguments) ==
    IF arguments = <<>> THEN << <<"*">> >> ELSE arguments

\* parse_command, lines 262-267: a missing or other label is a shorthand for "*"
NormaliseItemArguments(arguments) ==
    IF arguments = <<>> THEN << <<"*">> >>
    ELSE IF At(arguments[1], 0) # "*" /\ At(arguments[1], 0) # "[" /\ ~IsDigit(At(arguments[1], 0))
         THEN << <<"*">> >> \o arguments
    ELSE arguments

\* parse_command, lines 277-285: the definition term runs up to the first
\* argument that holds a ']'
RECURSIVE DefinitionTerm(_, _)
DefinitionTerm(arguments, dt) ==
    IF arguments = <<>> THEN [dt |-> dt, rest |-> <<>>]
    ELSE IF RFind(Head(arguments), "]") # -1
         THEN [dt |-> dt \o Head(arguments), rest |-> Tail(arguments)]
    ELSE DefinitionTerm(Tail(arguments), dt \o Head(arguments) \o <<" ">>)

\* parse_command, lines 255-257
ClosePreceedingItem(p, preceeding) ==
    IF preceeding # 0
    THEN PushToken(p, PodNodeItemEnd(p.m_tokens[preceeding].m_list_type))
    ELSE p

\* parse_command, lines 276-292: the label of the item and the arguments left
ItemTerm(arguments) ==
    IF At(arguments[1], 0) = "["
    THEN DefinitionTerm(arguments, <<>>)
    ELSE [dt |-> arguments[1], rest |-> Tail(arguments)]

\* parse_command, lines 287-297
ItemContent(p, term, ub) ==
    PushUnlessFault(
        parse_inline(PushToken(PushToken(p, PodNodeItemStart(term.dt)), PodNodeParaStart),
                     join_vectorstr(term.rest, <<" ">>), ub),
        PodNodeParaEnd)

\* parse_command, lines 252-298
CommandItem(p, arguments, ub) ==
    ItemContent(ClosePreceedingItem(p, find_preceeding_item(p.m_tokens)),
                ItemTerm(NormaliseItemArguments(arguments)), ub)

\* parse_command, lines 312-315
SetOverListType(p, over, list_type) ==
    IF over # 0 THEN [p EXCEPT !.m_tokens[over].m_list_type = list_type] ELSE p

\* parse_command, lines 305-316 and 321
BackOfItem(p, list_type) ==
    PushToken(SetOverListType(p, find_preceeding_over(p.m_tokens), list_type),
              PodNodeBack(list_type))

\* a =back that closes an item whether or not there is one
CommandBackFrom_always_closes(p, preceeding) ==
    BackOfItem(PushToken(p, PodNodeItemEnd(unordered)), unordered)

\* parse_command, lines 299-322
CommandBackFrom(p, preceeding) ==
    IF preceeding # 0
    THEN BackOfItem(PushToken(p, PodNodeItemEnd(p.m_tokens[preceeding].m_list_type)),
                    p.m_tokens[preceeding].m_list_type)
    ELSE PushToken(Warn(p, "empty =over block"), PodNodeBack(unordered))

CommandBack(p) == CommandBackFrom(p, find_preceeding_item(p.m_tokens))

\* parse_command, lines 323-327; arguments[0] of an empty vector is undefined:
\* the build crashes, or reads the string erased last (cmd) or an empty one
CommandBegin(p, cmd, arguments, ub) ==
    IF arguments = <<>> /\ ub = "crash" THEN [p EXCEPT !.fault = "crash"]
    ELSE [p EXCEPT !.m_data_end_tag = <<"=">> \o kw_end \o <<" ">>
                                         \o (IF arguments # <<>> THEN arguments[1]
                                             ELSE IF ub = "stale" THEN cmd
                                             ELSE <<>>),
                   !.m_data_args = arguments,
                   !.m_mode = "data"]

\* parse_command, lines 328-348
ForContent(p, formatname, content, ub) ==
    IF At(formatname, 0) = ":"
    THEN PushUnlessFault(parse_inline(PushToken(p, PodNodeParaStart), content, ub),
                         PodNodeParaEnd)
    ELSE PushToken(p, PodNodeData(content, <<formatname>>))

CommandFor(p, arguments, ub) ==
    IF arguments = <<>> THEN Warn(p, "=for lacks argument")
    ELSE ForContent(p, arguments[1], join_vectorstr(Tail(arguments), <<" ">>), ub)

\* the if/else-if chain of parse_command over the command name
Dispatch(p, command, cmd, arguments, ub) ==
    IF HeadLevel(cmd) # 0 THEN CommandHead(p, command, cmd, ub)
    ELSE IF cmd = kw_pod THEN p
    ELSE IF cmd = kw_cut THEN [p EXCEPT !.m_mode = "cut"]
    ELSE IF cmd = kw_over THEN CommandOver(p, arguments)
    ELSE IF cmd = kw_item THEN CommandItem(p, arguments, ub)
    ELSE IF cmd = kw_back THEN CommandBack(p)
    ELSE IF cmd = kw_begin THEN CommandBegin(p, cmd, arguments, ub)
    ELSE IF cmd = <<"=">> \o kw_for THEN CommandFor(p, arguments, ub)
    ELSE IF cmd = kw_encoding THEN Warn(p, "=encoding ignored")
    ELSE Warn(p, "unknown command")

\* parse_command; arguments[0] and erase(begin()) on an empty vector are
\* undefined: the build crashes or goes on with an empty command name
CommandWords(p, command, words, ub) ==
    IF words = <<>> /\ ub = "crash" THEN [p EXCEPT !.fault = "crash"]
    ELSE Dispatch(p, command,
                  IF words = <<>> THEN <<>> ELSE words[1],
                  IF words = <<>> THEN <<>> ELSE Tail(words), ub)

parse_command(p, command, ub) ==
    CommandWords(p, command, SplitWords(SubstrFrom(command, 1), <<>>), ub)

\* parse_ordinary without the push of the PodNodeParaEnd
parse_ordinary_unclosed(p, ordinary, ub) ==
    parse_inline(PushToken(p, PodNodeParaStart), ordinary, ub)

\* parse_ordinary, lines 200-202
parse_ordinary(p, ordinary, ub) ==
    PushUnlessFault(parse_inline(PushToken(p, PodNodeParaStart), ordinary, ub), PodNodeParaEnd)

\* std::getline over a stringstream of str, until it fails: the lines of str
RECURSIVE GetLines(_, _)
GetLines(str, line) ==
    IF str = <<>> THEN (IF line = <<>> THEN <<>> ELSE <<line>>)
    ELSE IF Head(str) = "\n" THEN <<line>> \o GetLines(Tail(str), <<>>)
    ELSE GetLines(Tail(str), Append(line, Head(str)))

\* parse_verbatim, lines 360-367: line.substr(n) throws std::out_of_range
\* when n > line.size()
LinesThrow(lines, n) == \E i \in 1..Len(lines) : n > Len(lines[i])

StripThrows(verbatim, n) == LinesThrow(GetLines(verbatim, <<>>), n)

StripLines(lines, n) == Concat([i \in 1..Len(lines) |-> SubstrFrom(lines[i], n) \o <<"\n">>])

StripLeadSpace(verbatim, n) == StripLines(GetLines(verbatim, <<>>), n)

\* a node for every verbatim paragraph
AddVerbatim_always_pushes(p, text) == PushToken(p, PodNodeVerbatim(text))

\* the previous verbatim node extended without the newline
AddVerbatim_no_newline(p, text) ==
    IF Len(p.m_tokens) > 0 /\ Is(Last(p.m_tokens), "Verbatim")
    THEN [p EXCEPT !.m_tokens[Len(p.m_tokens)].m_text = @ \o text]
    ELSE PushToken(p, PodNodeVerbatim(text))

\* parse_verbatim, lines 369-379: the previous verbatim node is extended
AddVerbatim(p, text) ==
    IF Len(p.m_tokens) > 0 /\ Is(Last(p.m_tokens), "Verbatim")
    THEN [p EXCEPT !.m_tokens[Len(p.m_tokens)].m_text = @ \o <<"\n">> \o text]
    ELSE PushToken(p, PodNodeVerbatim(text))

parse_verbatim(p, verbatim) ==
    IF p.m_verbatim_lead_space > 0 /\ StripThrows(verbatim, p.m_verbatim_lead_space)
    THEN [p EXCEPT !.fault = "exception"]
    ELSE AddVerbatim(p, IF p.m_verbatim_lead_space > 0
                        THEN StripLeadSpace(verbatim, p.m_verbatim_lead_space)
                        ELSE verbatim)

parse_data(p, data) == PushToken(p, PodNodeData(data, p.m_data_args))

\* the mode set and the buffer kept
BackToNone_keeps_buffer(p) ==
    IF p.fault # "none" THEN p ELSE [p EXCEPT !.m_mode = "none"]

\* the statements that follow a dispatch in parse_line
BackToNone(p) ==
    IF p.fault # "none" THEN p
    ELSE [p EXCEPT !.m_mode = "none", !.m_current_buffer = <<>>]

parse_line(p, line, ub) ==
    CASE p.m_mode = "command" ->
            IF line = <<>>
            THEN BackToNone(parse_command(p, p.m_current_buffer, ub))
            ELSE [p EXCEPT !.m_current_buffer = @ \o line \o <<" ">>]
      [] p.m_mode = "ordinary" ->
            IF line = <<>>
            THEN BackToNone(parse_ordinary(p, p.m_current_buffer, ub))
            ELSE [p EXCEPT !.m_current_buffer = @ \o line \o <<" ">>]
      [] p.m_mode = "verbatim" ->
            IF line = <<>>
            THEN BackToNone(parse_verbatim(p, p.m_current_buffer))
            ELSE [p EXCEPT !.m_current_buffer = @ \o line \o <<"\n">>]
      [] p.m_mode = "data" ->
            IF line = p.m_data_end_tag
            THEN [BackToNone(parse_data(p, p.m_current_buffer)) EXCEPT
                     !.m_data_end_tag = <<>>, !.m_data_args = <<>>]
            ELSE [p EXCEPT !.m_current_buffer = @ \o line \o <<"\n">>]
      [] p.m_mode = "cut" ->
            IF line = <<"=">> \o kw_pod THEN [p EXCEPT !.m_mode = "none"] ELSE p
      [] OTHER ->
            CASE At(line, 0) = NUL -> p
              [] At(line, 0) = "=" ->
                    [p EXCEPT !.m_current_buffer = line \o <<" ">>, !.m_mode = "command"]
              [] At(line, 0) \in {" ", "\t"} ->
                    [p EXCEPT !.m_verbatim_lead_space = count_leading_whitespace(line),
                              !.m_current_buffer = line \o <<"\n">>,
                              !.m_mode = "verbatim"]
              [] OTHER ->
                    [p EXCEPT !.m_mode = "ordinary", !.m_current_buffer = line \o <<" ">>]

----------------------------------------------------------------------------
(* The nodes' ToHTML and FormatHTML *)

\* the characters of 'A'..'Z' and 'a'..'z'
AsciiLetters ==
    {"a", "b", "c", "d", "e", "f", "g", "h", "i", "j", "k", "l", "m",
     "n", "o", "p", "q", "r", "s", "t", "u", "v", "w", "x", "y", "z",
     "A", "B", "C", "D", "E", "F", "G", "H", "I", "J", "K", "L", "M",
     "N", "O", "P", "Q", "R", "S", "T", "U", "V", "W", "X", "Y", "Z"}

MakeHeadingAnchorName(title) ==
    [i \in 1..Len(title) |->
        IF IsDigit(title[i]) \/ title[i] \in AsciiLetters
        THEN title[i] ELSE "-"]

\* str.find(sub): the 0-based position of the first occurrence, or -1 for npos
FindStr(str, sub) ==
    IF \E i \in 0..Len(str) : Substr(str, i, Len(sub)) = sub
    THEN CHOOSE i \in 0..Len(str) :
             /\ Substr(str, i, Len(sub)) = sub
             /\ \A j \in 0..(i - 1) : Substr(str, j, Len(sub)) # sub
    ELSE -1

\* check_manpage: the positions are compared as size_t, where npos is the
\* size of an empty string less one and the size of a string of two less three
check_manpage(target) ==
    /\ Find(target, " ") = -1
    /\ RFind(target, ")") = Len(target) - 1
    /\ RFind(target, "(") = Len(target) - 3
    /\ IsDigit(At(target, Len(target) - 2))

\* check_manpage, the string it sets `manpage' to: substr(0, npos) is the whole
ManpageName(target) ==
    IF RFind(target, "(") = -1 THEN target ELSE Substr(target, 0, RFind(target, "("))

ManpageSection(target) == Substr(target, Len(target) - 2, 1)

\* the callbacks the caller gives the parser: the generator's functions for
\* file names and method anchors
filename_cb(classmodname) == <<"F", "(">> \o classmodname \o <<")">>

mname_cb(is_cmethod, methodname) ==
    (IF is_cmethod THEN <<"C", "(">> ELSE <<"I", "(">>) \o methodname \o <<")">>

\* a rendering: the string so far, the callbacks called, the warnings written
NoRendering == [result |-> <<>>, calls |-> {}, cerr |-> <<>>, fault |-> "none"]

\* the string grows, unless the rendering has been left by a fault
Emit(r, str) == IF r.fault # "none" THEN r ELSE [r EXCEPT !.result = @ \o str]

Called(r, call) == [r EXCEPT !.calls = @ \cup {call}]

RenderWarn(r, what) == [r EXCEPT !.cerr = Append(@, what)]

HrefOpen == <<"<", "a", " ", "h", "r", "e", "f", "=", "\"">>

HrefClose == <<"\"", ">">>

\* a call through a callback pointer that was never set
CallFilename(r, has_cb, classmodname) ==
    IF r.fault # "none" THEN r
    ELSE IF ~has_cb THEN [r EXCEPT !.fault = "crash"]
    ELSE Emit(Called(r, <<"filename", classmodname>>), filename_cb(classmodname))

CallMname(r, has_cb, is_cmethod, methodname) ==
    IF r.fault # "none" THEN r
    ELSE IF ~has_cb THEN [r EXCEPT !.fault = "crash"]
    ELSE Emit(Called(r, <<"mname", is_cmethod, methodname>>),
              mname_cb(is_cmethod, methodname))

\* ToHTML, lines 999-1004: variant 2, the target split at its delimiter
MethodLinkParts(r, has_cb, is_cmethod, classmodname, methodname) ==
    IF classmodname = <<>>
    THEN Emit(CallMname(Emit(r, HrefOpen \o <<"#">>), has_cb, is_cmethod, methodname),
              HrefClose)
    ELSE Emit(CallMname(Emit(CallFilename(Emit(r, HrefOpen), has_cb, classmodname),
                             <<"#">>),
                        has_cb, is_cmethod, methodname),
              HrefClose)

\* ToHTML, lines 995-997: the delimiter is at pos
MethodLink(r, has_cb, link_target, pos) ==
    MethodLinkParts(r, has_cb, At(link_target, pos) = ":", Substr(link_target, 0, pos),
                    SubstrFrom(link_target,
                               IF At(link_target, pos) = ":" THEN pos + 2 ELSE pos + 1))

\* ToHTML, lines 1016-1029
SectionLinkParts(r, has_cb, classmodname, section) ==
    IF classmodname = <<>>
    THEN Emit(IF section = <<>> THEN RenderWarn(r, "empty link target") ELSE r,
              HrefOpen \o <<"#">> \o MakeHeadingAnchorName(section) \o HrefClose)
    ELSE IF section = <<>>
    THEN Emit(CallFilename(Emit(r, HrefOpen), has_cb, classmodname), HrefClose)
    ELSE Emit(CallFilename(Emit(r, HrefOpen), has_cb, classmodname),
              <<"#">> \o MakeHeadingAnchorName(section) \o HrefClose)

\* ToHTML, lines 1007-1015: variant 1, split at the slash
SectionLink(r, has_cb, link_target, pos) ==
    IF pos # -1
    THEN SectionLinkParts(r, has_cb, Substr(link_target, 0, pos), SubstrFrom(link_target, pos + 1))
    ELSE SectionLinkParts(r, has_cb, link_target, <<>>)

ManpageLink(r, link_target) ==
    Emit(r, HrefOpen \o <<"h", "t", "t", "p", "s", ":", "/", "/", "l", "i", "n", "u", "x", ".", "d", "i", "e", ".", "n", "e", "t", "/", "m", "a", "n", "/">>
            \o ManpageSection(link_target) \o <<"/">> \o ManpageName(link_target) \o HrefClose)

\* the two delimiters tested in the other order
InternalLink_colons_first(r, has_cb, link_target) ==
    IF check_manpage(link_target) THEN ManpageLink(r, link_target)
    ELSE IF FindStr(link_target, <<":", ":">>) # -1
    THEN MethodLink(r, has_cb, link_target, FindStr(link_target, <<":", ":">>))
    ELSE IF Find(link_target, "#") # -1
    THEN MethodLink(r, has_cb, link_target, Find(link_target, "#"))
    ELSE SectionLink(r, has_cb, link_target, Find(link_target, "/"))

\* ToHTML, lines 979-1030: the target is no URL
InternalLink(r, has_cb, link_target) ==
    IF check_manpage(link_target) THEN ManpageLink(r, link_target)
    ELSE IF Find(link_target, "#") # -1
    THEN MethodLink(r, has_cb, link_target, Find(link_target, "#"))
    ELSE IF FindStr(link_target, <<":", ":">>) # -1
    THEN MethodLink(r, has_cb, link_target, FindStr(link_target, <<":", ":">>))
    ELSE SectionLink(r, has_cb, link_target, Find(link_target, "/"))

\* every target taken for an internal one
LinkTo_always_internal(r, has_cb, link_target) == InternalLink(r, has_cb, link_target)

\* ToHTML, lines 978-1034
LinkTo(r, has_cb, link_target) ==
    IF FindStr(link_target, <<":", "/", "/">>) = -1
    THEN InternalLink(r, has_cb, link_target)
    ELSE Emit(r, HrefOpen \o link_target \o HrefClose)

LinkWarned(r, has_cb, link_target) ==
    LinkTo(IF Find(link_target, "<") # -1
           THEN RenderWarn(r, "formatting codes inside link target") ELSE r,
           has_cb, link_target)

\* ToHTML, lines 970-973
LinkTargetOf(arg) ==
    IF Find(arg, "|") # -1 THEN SubstrFrom(arg, Find(arg, "|") + 1) ELSE arg

\* m_args[0] of a link that was never closed reads an empty vector: the build
\* crashes or finds an empty string there
LinkStartToHTML(r, node, ub) ==
    IF node.m_args = <<>>
    THEN (IF ub = "crash" THEN [r EXCEPT !.fault = "crash"] ELSE LinkWarned(r, node.m_cb, <<>>))
    ELSE LinkWarned(r, node.m_cb, LinkTargetOf(node.m_args[1]))

\* PodNodeInlineMarkupStart::ToHTML
MarkupStartToHTML(r, node, ub) ==
    CASE node.m_mtype = "italic" -> Emit(r, <<"<", "i", ">">>)
      [] node.m_mtype = "bold" -> Emit(r, <<"<", "b", ">">>)
      [] node.m_mtype = "code" -> Emit(r, <<"<", "t", "t", ">">>)
      [] node.m_mtype = "filename" -> Emit(r, <<"<", "s", "p", "a", "n", " ", "c", "l", "a", "s", "s", "=", "\"", "f", "i", "l", "e", "n", "a", "m", "e", "\"", ">">>)
      [] node.m_mtype = "link" -> LinkStartToHTML(r, node, ub)
      [] OTHER -> r

\* PodNodeInlineMarkupEnd::ToHTML, lines 1064-1074
EscapeToHTML(code) ==
    CASE code = <<"v", "e", "r", "b", "a", "r">> -> <<"|">>
      [] code = <<"s", "o", "l">> -> <<"/">>
      [] code = <<"l", "c", "h", "e", "v", "r", "o", "n">> -> <<"&", "l", "a", "q", "u", "o", ";">>
      [] code = <<"r", "c", "h", "e", "v", "r", "o", "n">> -> <<"&", "r", "a", "q", "u", "o", ";">>
      [] OTHER -> <<"&">> \o code \o <<";">>

\* PodNodeInlineMarkupEnd::ToHTML
MarkupEndToHTML(r, node) ==
    CASE node.m_mtype = "italic" -> Emit(r, <<"<", "/", "i", ">">>)
      [] node.m_mtype = "bold" -> Emit(r, <<"<", "/", "b", ">">>)
      [] node.m_mtype = "code" -> Emit(r, <<"<", "/", "t", "t", ">">>)
      [] node.m_mtype = "filename" -> Emit(r, <<"<", "/", "s", "p", "a", "n", ">">>)
      [] node.m_mtype = "link" -> Emit(r, <<"<", "/", "a", ">">>)
      [] node.m_mtype = "escape" -> Emit(r, EscapeToHTML(node.m_args[1]))
      [] node.m_mtype = "index" -> Emit(r, <<"<", "a", " ", "c", "l", "a", "s", "s", "=", "\"", "i", "d", "x", "e", "n", "t", "r", "y", "\"", " ", "n", "a", "m", "e", "=", "\"", "i", "d", "x", "-">> \o node.m_args[1] \o <<"\"", ">", "<", "/", "a", ">">>)
      [] OTHER -> r

ListOpenTag(t) ==
    CASE t = unordered -> <<"<", "u", "l", ">">> [] t = ordered -> <<"<", "o", "l", ">">> [] OTHER -> <<"<", "d", "l", ">">>

ListCloseTag(t) ==
    CASE t = unordered -> <<"<", "/", "u", "l", ">", "\n">> [] t = ordered -> <<"<", "/", "o", "l", ">", "\n">> [] OTHER -> <<"<", "/", "d", "l", ">", "\n">>

\* PodNodeItemStart::ToHTML
ItemStartToHTML(r, node) ==
    IF node.m_list_type = description
    THEN (IF Len(node.m_label) < 1 THEN [r EXCEPT !.fault = "exception"]
          ELSE Emit(r, <<"<", "d", "t", ">">> \o Substr(node.m_label, 1, Len(node.m_label) - 2) \o <<"<", "/", "d", "t", ">", "<", "d", "d", ">">>))
    ELSE Emit(r, <<"<", "l", "i", ">">>)

\* PodNodeData::ToHTML; m_arguments[0] of an empty vector is undefined: the
\* build crashes or finds a string that is not "html"
DataToHTML(r, node, ub) ==
    IF node.m_arguments = <<>>
    THEN (IF ub = "crash" THEN [r EXCEPT !.fault = "crash"] ELSE r)
    ELSE IF node.m_arguments[1] = <<"h", "t", "m", "l">> THEN Emit(r, node.m_data)
    ELSE r

\* std::to_string of a heading level
LevelDigit(level) == DigitChars[level + 1]

\* p_node->ToHTML() for each of the node classes
NodeToHTML(r, node, ub) ==
    CASE Is(node, "HeadStart") ->
            Emit(r, <<"<", "h", LevelDigit(node.m_level)>> \o <<" ", "i", "d", "=", "\"">>
                    \o MakeHeadingAnchorName(node.m_content) \o HrefClose)
      [] Is(node, "HeadEnd") -> Emit(r, <<"<", "/", "h", LevelDigit(node.m_level), ">", "\n">>)
      [] Is(node, "Over") -> Emit(r, ListOpenTag(node.m_list_type))
      [] Is(node, "ItemStart") -> ItemStartToHTML(r, node)
      [] Is(node, "ItemEnd") ->
            Emit(r, IF node.m_list_type = description THEN <<"<", "/", "d", "d", ">">> ELSE <<"<", "/", "l", "i", ">">>)
      [] Is(node, "Back") -> Emit(r, ListCloseTag(node.m_list_type))
      [] Is(node, "ParaStart") -> Emit(r, <<"<", "p", ">">>)
      [] Is(node, "ParaEnd") -> Emit(r, <<"<", "/", "p", ">", "\n">>)
      [] Is(node, "InlineMarkupStart") -> MarkupStartToHTML(r, node, ub)
      [] Is(node, "InlineMarkupEnd") -> MarkupEndToHTML(r, node)
      [] Is(node, "InlineText") -> Emit(r, node.m_text)
      [] Is(node, "Data") -> DataToHTML(r, node, ub)
      [] OTHER -> Emit(r, <<"<", "p", "r", "e", ">">> \o node.m_text \o <<"<", "/", "p", "r", "e", ">", "\n">>)

\* the loop of FormatHTML from the i-th token on
RECURSIVE FormatFrom(_, _, _, _)
FormatFrom(r, tokens, i, ub) ==
    IF i > Len(tokens) \/ r.fault # "none" THEN r
    ELSE FormatFrom(NodeToHTML(r, tokens[i], ub), tokens, i + 1, ub)

\* the string kept from one call to the next, as a static local would be
FormatHTML_static_result(tokens, ub) ==
    FormatFrom([NoRendering EXCEPT !.result = result], tokens, 1, ub)

\* `std::string result;' is a local of FormatHTML: empty at every call
FormatHTML(tokens, ub) == FormatFrom(NoRendering, tokens, 1, ub)

----------------------------------------------------------------------------
(* The documents that are parsed *)

MaxRawLen == 4
MaxInlineAtoms == 5
MaxItems == 2
MaxBlocks == 2

SeqsUpTo(S, n) == UNION {[1..k -> S] : k \in 0..n}

\* the concatenations of at most n strings of Atoms
AtomDocs(Atoms, n) == {Concat(atoms) : atoms \in SeqsUpTo(Atoms, n)}

RawChars == {"a", " ", "\n", "<", ">", "&", "="}

\* every string of at most MaxRawLen characters
RawDocs == SeqsUpTo(RawChars, MaxRawLen)

BlankLine == <<"\n", "\n">>

\* paragraphs with a formatting code opened by two angle brackets
ItalicAtoms == {<<"I", "<", "<">>, <<">">>, <<"<">>, <<"a">>}
ItalicDocs == AtomDocs(ItalicAtoms, MaxInlineAtoms)

\* paragraphs with Z<> codes
ZapAtoms == {<<"Z", "<">>, <<">">>, <<"a">>, <<" ">>}
ZapDocs == AtomDocs(ZapAtoms, MaxInlineAtoms)

\* paragraphs with X<<>> codes
IndexAtoms == {<<"X", "<", "<">>, <<">">>, <<"a">>, <<" ">>}
IndexDocs == AtomDocs(IndexAtoms, MaxInlineAtoms)

\* =over, then for each label an =item and a paragraph, then =back
ItemLabels == {<<"a">>, <<"x", " ", "y">>, <<"*">>, <<"1">>, <<"[", "t", "]">>}
OtherLabels == {l \in ItemLabels : l[1] # "*" /\ l[1] # "[" /\ ~IsDigit(l[1])}

ItemBlock(label) ==
    <<"=">> \o kw_item \o <<" ">> \o label \o BlankLine \o <<"f">> \o BlankLine

ListDoc(labels) ==
    <<"=">> \o kw_over \o BlankLine
    \o Concat([i \in 1..Len(labels) |-> ItemBlock(labels[i])])
    \o <<"=">> \o kw_back \o BlankLine

ListDocs == {ListDoc(labels) : labels \in SeqsUpTo(ItemLabels, MaxItems)}

\* command paragraphs and ordinary paragraphs, a blank line after each
Blocks ==
    {<<"=">> \o kw_cut,
     <<"=">> \o kw_pod,
     <<"=">> \o kw_begin \o <<" ", "h">>,
     <<"=">> \o kw_begin,
     <<"=">> \o kw_end \o <<" ", "h">>,
     <<"=">> \o kw_for \o <<" ", "h", " ", "b">>,
     <<"=">> \o kw_for \o <<" ", ":", "h", " ", "b">>,
     <<"=">> \o kw_over \o <<" ", "x">>,
     <<"=">> \o kw_over \o <<" ", "4">>,
     <<"=">> \o kw_head \o <<"1", " ", "a">>,
     <<"=">> \o kw_encoding \o <<" ", "u">>,
     <<"=", "u">>,
     <<"b">>}

BlockDocs == {Concat([i \in 1..Len(blocks) |-> blocks[i] \o BlankLine]) :
                 blocks \in SeqsUpTo(Blocks, MaxBlocks)}

\* a heading of each level over a title with Z<> codes, then a paragraph
MaxTitleAtoms == 3

TitleAtoms == {<<"Z", "<">>, <<">">>, <<"a">>}

HeadDoc(level, title) ==
    <<"=">> \o kw_head \o <<level, " ">> \o title \o BlankLine \o <<"b">> \o BlankLine

HeadDocs == {HeadDoc(level, title) : level \in {"1", "2", "3", "4"},
                                     title \in AtomDocs(TitleAtoms, MaxTitleAtoms)}

\* verbatim paragraphs, paragraphs and commands that append nothing; no blank
\* line after the last
MaxVerbatimBlocks == 3

VerbatimBlocks == {<<" ", "v">>, <<" ", " ", "w">>, <<"\t", "v">>, <<"=">> \o kw_pod, <<"b">>}

RECURSIVE JoinBlocks(_)
JoinBlocks(blocks) ==
    IF blocks = <<>> THEN <<>>
    ELSE IF Len(blocks) = 1 THEN blocks[1]
    ELSE blocks[1] \o BlankLine \o JoinBlocks(Tail(blocks))

VerbatimDocs == {JoinBlocks(blocks) : blocks \in SeqsUpTo(VerbatimBlocks, MaxVerbatimBlocks)}

\* a paragraph that leaves a formatting code open, then a paragraph
OpenCodes == {<<"E", "<", "a">>, <<"X", "<", "a">>, <<"L", "<", "a">>,
              <<"L", "<", "a", "|", "a">>, <<"S", "<", "a">>, <<"Z", "<", "a">>,
              <<"I", "<", "a">>}

OpenCodeDoc(code) == code \o BlankLine \o <<"b">> \o BlankLine

OpenCodeDocs == {OpenCodeDoc(code) : code \in OpenCodes}

\* lists inside lists: =over, =item and =back commands in any order
MaxListCommands == 5

ListCommands ==
    {<<"=">> \o kw_over, <<"=">> \o kw_item \o <<" ", "*">>,
     <<"=">> \o kw_item \o <<" ", "1">>, <<"=">> \o kw_back}

NestDocs == {Concat([i \in 1..Len(commands) |-> commands[i] \o BlankLine]) :
                commands \in SeqsUpTo(ListCommands, MaxListCommands)}

\* paragraphs with L<<>> codes, bars and single angle brackets
MaxBarAtoms == 4

BarAtoms == {<<"L", "<", "<">>, <<"|">>, <<">", "a">>, <<">", ">">>, <<"a">>}
BarDocs == AtomDocs(BarAtoms, MaxBarAtoms)

\* paragraphs with E<<>> codes, spaces and single angle brackets
MaxEscAtoms == 4

EscAtoms == {<<"E", "<", "<">>, <<" ">>, <<">", "a">>, <<">", ">">>, <<"a">>}
EscDocs == AtomDocs(EscAtoms, MaxEscAtoms)

\* paragraphs with I<> codes and spaces
MaxStripAtoms == 5

StripAtoms == {<<"I", "<">>, <<">">>, <<"a">>, <<" ">>}
StripDocs == AtomDocs(StripAtoms, MaxStripAtoms)

\* paragraphs with I<> codes inside Z<> codes
MaxMixedAtoms == 4

MixedAtoms == {<<"Z", "<">>, <<"I", "<">>, <<">">>, <<"a">>}
MixedDocs == AtomDocs(MixedAtoms, MaxMixedAtoms)

\* one link: the atoms its target is made of
MaxLinkAtoms == 3

LinkAtoms == {<<"a">>, <<"#">>, <<":", ":">>, <<":", "/", "/">>, <<"/">>,
              <<"(", "1", ")">>, <<"|">>}

LinkDoc(target) == <<"L", "<">> \o target \o <<">", "\n">>

LinkTargets == UNION {{Concat(c) : c \in [1..n -> LinkAtoms]} : n \in 0..MaxLinkAtoms}

LinkDocs == {LinkDoc(target) : target \in LinkTargets}

\* one link to a target that ends, or nearly ends, as the name of a man page
MaxManAtoms == 3

ManAtoms == {<<"(", "1", ")">>, <<"1", ")">>, <<")">>, <<" ">>, <<"a">>}

ManDocs == {LinkDoc(target) : target \in AtomDocs(ManAtoms, MaxManAtoms)}

\* a heading, then a paragraph with a link to the section of that title
MaxAnchorLen == 2

AnchorChars == {"a", "A", "1", ".", "-"}

AnchorDoc(level, title) ==
    <<"=">> \o kw_head \o <<level, " ">> \o title \o BlankLine
    \o <<"L", "<", "/">> \o title \o <<">", "\n">>

AnchorDocs == {AnchorDoc(level, title) : level \in {"1", "4"},
                                         title \in SeqsUpTo(AnchorChars, MaxAnchorLen) \ {<<>>}}

\* the calls of FormatHTML the caller makes at most
MaxRenders == 2

\* the calls of Reset the caller makes at most
MaxResets == 1

\* the documents a parser is constructed with before it is used again
FirstDocs == OpenCodeDocs \cup BlockDocs

\* the documents of two parsers that run side by side
TwoDocs ==
    {<<"L", "<", "a", "\n", "\n", "b", "\n">>,
     LinkDoc(<<"a">>),
     <<"X", "<", "a", ">", "\n", "\n", " ", "v", "\n">>,
     <<" ", " ", "v", "\n", "\n", " ", "w", "\n">>,
     <<"=">> \o kw_over \o BlankLine \o <<"=">> \o kw_item \o <<" ", "a">> \o BlankLine
         \o <<"=">> \o kw_back \o <<"\n">>,
     <<"=">> \o kw_head \o <<"1", " ", "E", "<", "a", "\n">>}

\* the documents a parser is reset to
ResetDocs ==
    {<<>>, LinkDoc(<<"a">>), LinkDoc(<<"a", "|", "a">>), <<"a", "\n">>,
     <<" ", "v", "\n">>, <<"X", "<", "a", ">", "\n">>, <<"=", "e", "n", "d", " ", "h", "\n">>}

Docs ==
    RawDocs \cup ItalicDocs \cup ZapDocs \cup IndexDocs \cup ListDocs \cup BlockDocs
    \cup HeadDocs \cup VerbatimDocs \cup OpenCodeDocs \cup LinkDocs \cup NestDocs
    \cup BarDocs \cup EscDocs \cup StripDocs \cup MixedDocs \cup ManDocs
    \cup AnchorDocs

----------------------------------------------------------------------------
(* PodParser::PodParser and PodParser::Parse *)

\* what a build can do where the code's behaviour is undefined
UBOutcomes == {"crash", "stale", "empty"}

Self ==
    [m_lino |-> m_lino, m_mode |-> m_mode, m_link_bar_found |-> m_link_bar_found,
     m_verbatim_lead_space |-> m_verbatim_lead_space, m_tokens |-> m_tokens,
     m_current_buffer |-> m_current_buffer, m_data_end_tag |-> m_data_end_tag,
     m_data_args |-> m_data_args, m_idx_keywords |-> m_idx_keywords,
     m_ecode |-> m_ecode, m_idx_kw |-> m_idx_kw, m_link_content |-> m_link_content,
     cerr |-> cerr, fault |-> "none"]

\* the members and std::cerr after a call that left the parser as the record p
Becomes(p) ==
    /\ m_lino' = p.m_lino
    /\ m_mode' = p.m_mode
    /\ m_link_bar_found' = p.m_link_bar_found
    /\ m_verbatim_lead_space' = p.m_verbatim_lead_space
    /\ m_tokens' = p.m_tokens
    /\ m_current_buffer' = p.m_current_buffer
    /\ m_data_end_tag' = p.m_data_end_tag
    /\ m_data_args' = p.m_data_args
    /\ m_idx_keywords' = p.m_idx_keywords
    /\ m_ecode' = p.m_ecode
    /\ m_idx_kw' = p.m_idx_kw
    /\ m_link_content' = p.m_link_content
    /\ cerr' = p.cerr

\* where Parse is after a call of parse_line: an exception or a crash leaves it
PcAfter(p, next) ==
    IF p.fault = "exception" THEN "thrown"
    ELSE IF p.fault = "crash" THEN "crashed"
    ELSE next

\* the members of a parser as its constructor leaves them
FreshParser ==
    [m_lino |-> 0, m_mode |-> "none", m_link_bar_found |-> FALSE,
     m_verbatim_lead_space |-> 0, m_tokens |-> <<>>,
     m_current_buffer |-> <<>>, m_data_end_tag |-> <<>>,
     m_data_args |-> <<>>, m_idx_keywords |-> {},
     m_ecode |-> <<>>, m_idx_kw |-> <<>>, m_link_content |-> <<>>,
     cerr |-> <<>>, fault |-> "none"]

\* a second instance as its constructor leaves it, given the source str
OtherParser(str) ==
    [pc |-> "constructed", ss_pos |-> 0, m_source_markup |-> str, self |-> FreshParser]

\* the state after the construction of one parser, or of two
Constructed(docs, others) ==
    /\ other \in others
    /\ pc = "constructed"
    /\ ss_pos = 0
    /\ cerr = <<>>
    /\ m_lino = 0
    /\ m_mode = "none"
    /\ m_link_bar_found = FALSE
    /\ m_source_markup \in docs
    /\ m_verbatim_lead_space = 0
    /\ m_tokens = <<>>
    /\ m_current_buffer = <<>>
    /\ m_data_end_tag = <<>>
    /\ m_data_args = <<>>
    /\ m_idx_keywords = {}
    /\ m_ecode = <<>>
    /\ m_idx_kw = <<>>
    /\ m_link_content = <<>>
    /\ result = <<>>
    /\ calls = {}
    /\ renders = 0
    /\ resets = 0

Init == Constructed(Docs, {OtherParser(<<>>)})

\* Parse, lines 94-106: up to the line loop
ParseBegin ==
    /\ pc = "constructed"
    /\ IF m_source_markup = <<>>
       THEN /\ pc' = "done"
            /\ UNCHANGED <<ss_pos, cerr, m_lino, m_mode, m_link_bar_found,
                           m_verbatim_lead_space, m_tokens, m_current_buffer,
                           m_data_end_tag, m_data_args, m_idx_keywords, m_ecode,
                           m_idx_kw, m_link_content>>
       ELSE /\ pc' = "loop"
            /\ ss_pos' = 0
            /\ m_mode' = "none"
            /\ m_link_bar_found' = FALSE
            /\ m_verbatim_lead_space' = 0
            /\ m_current_buffer' = <<>>
            /\ m_data_end_tag' = <<>>
            /\ m_ecode' = <<>>
            /\ m_idx_kw' = <<>>
            /\ UNCHANGED <<cerr, m_lino, m_tokens, m_data_args, m_idx_keywords,
                           m_link_content>>
    /\ UNCHANGED <<m_source_markup, result, calls, renders, resets, other>>

\* the position of the next '\n' of the source at or after pos, or its length
RECURSIVE LineEnd(_, _)
LineEnd(str, pos) ==
    IF pos >= Len(str) \/ At(str, pos) = "\n" THEN pos ELSE LineEnd(str, pos + 1)

\* the line std::getline(ss, line) is about to read
NextLine == SubSeq(m_source_markup, ss_pos + 1, LineEnd(m_source_markup, ss_pos))

\* Parse, lines 108-111: one iteration of the line loop
ParseGetLine ==
    /\ pc = "loop"
    /\ ss_pos < Len(m_source_markup)
    /\ \E ub \in UBOutcomes :
          \E p \in {parse_line([Self EXCEPT !.m_lino = @ + 1], NextLine, ub)} :
             /\ Becomes(p)
             /\ pc' = PcAfter(p, "loop")
    /\ ss_pos' = LineEnd(m_source_markup, ss_pos) + 1
    /\ UNCHANGED <<m_source_markup, result, calls, renders, resets, other>>

\* Parse returning without the call of parse_line("")
ParseFlush_skipped ==
    /\ pc = "loop"
    /\ ss_pos >= Len(m_source_markup)
    /\ pc' = "done"
    /\ UNCHANGED <<ss_pos, cerr, m_lino, m_mode, m_link_bar_found, m_source_markup,
                   m_verbatim_lead_space, m_tokens, m_current_buffer, m_data_end_tag,
                   m_data_args, m_idx_keywords, m_ecode, m_idx_kw, m_link_content,
                   result, calls, renders, resets, other>>

\* Parse, line 115: std::getline has failed, the last element is terminated
ParseFlush ==
    /\ pc = "loop"
    /\ ss_pos >= Len(m_source_markup)
    /\ \E ub \in UBOutcomes :
          \E p \in {parse_line(Self, <<>>, ub)} :
             /\ Becomes(p)
             /\ pc' = PcAfter(p, "done")
    /\ UNCHANGED <<ss_pos, m_source_markup, result, calls, renders, resets, other>>

\* where the caller is after a call of FormatHTML
PcAfterRender(r) ==
    IF r.fault = "exception" THEN "render_thrown"
    ELSE IF r.fault = "crash" THEN "render_crashed"
    ELSE "rendered"

\* the caller renders the tokens of the parser: FormatHTML(parser.GetTokens())
CallFormatHTML ==
    /\ pc \in {"done", "rendered"}
    /\ renders < MaxRenders
    /\ \E ub \in UBOutcomes :
          \E r \in {FormatHTML(m_tokens, ub)} :
             /\ result' = (IF r.fault = "none" THEN r.result ELSE result)
             /\ calls' = r.calls
             /\ cerr' = cerr \o r.cerr
             /\ pc' = PcAfterRender(r)
    /\ renders' = renders + 1
    /\ UNCHANGED <<ss_pos, m_lino, m_mode, m_link_bar_found, m_source_markup,
                   m_verbatim_lead_space, m_tokens, m_current_buffer, m_data_end_tag,
                   m_data_args, m_idx_keywords, m_ecode, m_idx_kw, m_link_content,
                   resets, other>>

Next == ParseBegin \/ ParseGetLine \/ ParseFlush \/ CallFormatHTML

Spec == Init /\ [][Next]_vars

----------------------------------------------------------------------------
(* PodParser::Reset: a parser that is used again *)

\* Reset, lines 83-89, called when Parse has returned or has thrown
Reset ==
    /\ pc \in {"done", "thrown"}
    /\ resets < MaxResets
    /\ m_source_markup' \in ResetDocs
    /\ m_lino' = 0
    /\ m_tokens' = <<>>
    /\ m_idx_keywords' = {}
    /\ pc' = "constructed"
    /\ resets' = resets + 1
    /\ UNCHANGED <<ss_pos, cerr, m_mode, m_link_bar_found, m_verbatim_lead_space,
                   m_current_buffer, m_data_end_tag, m_data_args, m_ecode, m_idx_kw,
                   m_link_content, result, calls, renders, other>>

InitReset == Init /\ m_source_markup \in FirstDocs

NextReset == ParseBegin \/ ParseGetLine \/ ParseFlush \/ Reset

SpecReset == InitReset /\ [][NextReset]_vars

\* Parse, lines 108-115: the line loop and the call that ends the last element
RECURSIVE ParseLines(_, _, _)
ParseLines(p, lines, ub) ==
    IF p.fault # "none" THEN p
    ELSE IF lines = <<>> THEN parse_line(p, <<>>, ub)
    ELSE ParseLines(parse_line([p EXCEPT !.m_lino = @ + 1], Head(lines), ub),
                    Tail(lines), ub)

\* Parse as one call on a parser with the members p and the source str
Parse(p, str, ub) ==
    IF str = <<>> THEN p
    ELSE ParseLines([p EXCEPT !.m_mode = "none", !.m_link_bar_found = FALSE,
                              !.m_verbatim_lead_space = 0, !.m_current_buffer = <<>>,
                              !.m_data_end_tag = <<>>, !.m_ecode = <<>>,
                              !.m_idx_kw = <<>>],
                    GetLines(str, <<>>), ub)

----------------------------------------------------------------------------
(* Two parser instances whose calls of Parse run side by side *)

\* m_link_content as a static member: the first instance's is read
OtherSelf_static_link_content ==
    [other.self EXCEPT !.cerr = cerr, !.m_link_content = m_link_content]

\* the members the second instance's methods work on: its own, and std::cerr
OtherSelf == [other.self EXCEPT !.cerr = cerr]

\* the second instance after a call that left its members as the record p
OtherBecomes(p, next, pos) ==
    /\ other' = [other EXCEPT !.self = [p EXCEPT !.cerr = <<>>, !.fault = "none"],
                              !.pc = PcAfter(p, next), !.ss_pos = pos]
    /\ cerr' = p.cerr

\* Parse of the second instance: the steps of ParseBegin, ParseGetLine and
\* ParseFlush on its members
OtherStep ==
    /\ \/ /\ other.pc = "constructed"
          /\ other.m_source_markup = <<>>
          /\ other' = [other EXCEPT !.pc = "done"]
          /\ UNCHANGED cerr
       \/ /\ other.pc = "constructed"
          /\ other.m_source_markup # <<>>
          /\ other' = [other EXCEPT !.pc = "loop", !.ss_pos = 0,
                                    !.self.m_mode = "none",
                                    !.self.m_link_bar_found = FALSE,
                                    !.self.m_verbatim_lead_space = 0,
                                    !.self.m_current_buffer = <<>>,
                                    !.self.m_data_end_tag = <<>>,
                                    !.self.m_ecode = <<>>,
                                    !.self.m_idx_kw = <<>>]
          /\ UNCHANGED cerr
       \/ /\ other.pc = "loop"
          /\ other.ss_pos < Len(other.m_source_markup)
          /\ \E ub \in UBOutcomes :
                \E p \in {parse_line([OtherSelf EXCEPT !.m_lino = @ + 1],
                                     SubSeq(other.m_source_markup, other.ss_pos + 1,
                                            LineEnd(other.m_source_markup, other.ss_pos)),
                                     ub)} :
                   OtherBecomes(p, "loop", LineEnd(other.m_source_markup, other.ss_pos) + 1)
       \/ /\ other.pc = "loop"
          /\ other.ss_pos >= Len(other.m_source_markup)
          /\ \E ub \in UBOutcomes :
                \E p \in {parse_line(OtherSelf, <<>>, ub)} :
                   OtherBecomes(p, "done", other.ss_pos)
    /\ UNCHANGED <<pc, ss_pos, m_lino, m_mode, m_link_bar_found, m_source_markup,
                   m_verbatim_lead_space, m_tokens, m_current_buffer, m_data_end_tag,
                   m_data_args, m_idx_keywords, m_ecode, m_idx_kw, m_link_content,
                   result, calls, renders, resets>>

InitTwo == Constructed(TwoDocs, {OtherParser(str) : str \in TwoDocs})

NextTwo == ParseBegin \/ ParseGetLine \/ ParseFlush \/ OtherStep

SpecTwo == InitTwo /\ [][NextTwo]_vars

----------------------------------------------------------------------------
(* Properties of a finished parse *)

Finished == pc = "done"

\* Parse has been left by an exception or has crashed
Faulted == pc \in {"thrown", "crashed"}

Ended == Finished \/ Faulted

\* the nodes of a kind in a token sequence
NodesOf(tokens, kind) == {i \in 1..Len(tokens) : Is(tokens[i], kind)}

\* the source without the newline that ends its last line
Chomp(str) ==
    IF str # <<>> /\ Last(str) = "\n" THEN SubSeq(str, 1, Len(str) - 1) ELSE str

\* what one character of a paragraph's text is to become in an InlineText
MaskedChar(ch) ==
    CASE ch = "&" -> <<"&", "a", "m", "p", ";">>
      [] ch = "<" -> <<"&", "l", "t", ";">>
      [] ch = ">" -> <<"&", "g", "t", ";">>
      [] ch = "\n" -> <<" ">>
      [] OTHER -> <<ch>>

Masked(T) == Concat([i \in 1..Len(T) |-> MaskedChar(T[i])])

\* T is the text of one ordinary paragraph: it starts neither a command nor a
\* verbatim paragraph, has no blank line, and no character of it is followed
\* by '<'
IsPlainText(T) ==
    /\ T # <<>>
    /\ T[1] \notin {"=", " ", "\t", "\n"}
    /\ T[Len(T)] # "\n"
    /\ \A i \in 2..Len(T) : T[i] # "<" /\ ~(T[i - 1] = "\n" /\ T[i] = "\n")

\* C1 as the specification states it: a document that is one ordinary paragraph
\* of plain text T parses to ParaStart, one InlineText whose text is T with
\* newlines as spaces, HTML-escaped, and ParaEnd.
C1_TextIsEscapedT ==
    (Finished /\ IsPlainText(Chomp(m_source_markup)))
        => m_tokens = <<PodNodeParaStart,
                        PodNodeInlineText(Masked(Chomp(m_source_markup))),
                        PodNodeParaEnd>>

\* C1, amended: a document that is one ordinary paragraph of plain text T, no
\* character of which is followed by '<', parses to exactly three nodes:
\* ParaStart, one InlineText whose text is T with newlines as spaces,
\* HTML-escaped, followed by one space, and ParaEnd.
C1_TextIsEscapedTAndSpace ==
    (Finished /\ IsPlainText(Chomp(m_source_markup)))
        => m_tokens = <<PodNodeParaStart,
                        PodNodeInlineText(Masked(Chomp(m_source_markup)) \o <<" ">>),
                        PodNodeParaEnd>>

\* a paragraph of two lines with a character to escape has been parsed
C1_Witness ==
    /\ Finished
    /\ IsPlainText(Chomp(m_source_markup))
    /\ \E i \in 1..Len(m_source_markup) : m_source_markup[i] = "&"
    /\ \E i \in 2..Len(m_source_markup) - 1 : m_source_markup[i] = "\n"
    /\ Len(m_tokens) = 3
    /\ Is(m_tokens[2], "InlineText")

\* the lines of a text, without their newlines
Lines(str) == GetLines(str, <<>>)

\* str without its first k characters, nothing if it has no more than k
Drop(str, k) == SubSeq(str, k + 1, Len(str))

\* the source is one verbatim paragraph: its first line starts with a space
\* and no line of it is empty
IsVerbatimText(T) ==
    /\ T # <<>>
    /\ T[1] \in {" ", "\t"}
    /\ T[Len(T)] # "\n"
    /\ \A i \in 2..Len(T) : ~(T[i - 1] = "\n" /\ T[i] = "\n")

VerbatimExpected(lines) ==
    Concat([i \in 1..Len(lines) |->
               Drop(lines[i], count_leading_whitespace(lines[1])) \o <<"\n">>])

\* C2: a verbatim paragraph whose first line has k leading spaces or tabs
\* parses to one Verbatim node whose text is every line of the paragraph with
\* its first k characters removed, each followed by a newline.
C2_VerbatimStripsEveryLine ==
    (Ended /\ IsVerbatimText(Chomp(m_source_markup)))
        => /\ Finished
           /\ m_tokens = <<PodNodeVerbatim(VerbatimExpected(Lines(Chomp(m_source_markup))))>>

OnlyOf(str, chars) == \A i \in 1..Len(str) : str[i] \in chars

\* the source is "I<<", a text u of letters, one '>' and a rest w without '>'
StrayBody(src) == SubstrFrom(src, 3)

StrayText(src) == Substr(StrayBody(src), 0, Find(StrayBody(src), ">"))

StrayRest(src) == SubstrFrom(StrayBody(src), Find(StrayBody(src), ">") + 1)

IsStrayDoc(src) ==
    /\ Substr(src, 0, 3) = <<"I", "<", "<">>
    /\ Find(StrayBody(src), ">") >= 0
    /\ OnlyOf(StrayText(src), {"a"})
    /\ OnlyOf(StrayRest(src), {"a", "<"})

\* C3: while the open frame was opened by two '<', a single '>' neither closes
\* the frame nor emits an InlineMarkupEnd, and is appended as escaped literal
\* text to the current text node (or starts one).
C3_StrayCloserIsLiteral ==
    (Finished /\ IsStrayDoc(m_source_markup))
        => /\ NodesOf(m_tokens, "InlineMarkupEnd") = {}
           /\ Len(m_tokens) >= 3
           /\ m_tokens[2] = PodNodeInlineMarkupStart("italic")
           /\ Is(m_tokens[3], "InlineText")
           /\ Len(m_tokens[3].m_text) >= Len(StrayText(m_source_markup)) + 4
           /\ SubSeq(m_tokens[3].m_text, 1, Len(StrayText(m_source_markup)) + 4)
                  = StrayText(m_source_markup) \o MaskedChar(">")

OtherLabelLists == SeqsUpTo(OtherLabels, MaxItems) \ {<<>>}

\* one Over, one Back, and one ItemStart/ItemEnd pair for each of n items
IsListOf(tokens, n) ==
    /\ Cardinality(NodesOf(tokens, "Over")) = 1
    /\ Cardinality(NodesOf(tokens, "Back")) = 1
    /\ Cardinality(NodesOf(tokens, "ItemStart")) = n
    /\ Cardinality(NodesOf(tokens, "ItemEnd")) = n

\* the Over, the Back and every ItemStart and ItemEnd carry the list type
ListCarries(tokens, type) ==
    \A i \in NodesOf(tokens, "Over") \cup NodesOf(tokens, "Back")
             \cup NodesOf(tokens, "ItemStart") \cup NodesOf(tokens, "ItemEnd") :
        tokens[i].m_list_type = type

\* C4 as the specification states it: a list whose item labels start with a
\* character that is neither '*', a digit nor '[' has one Over, one
\* ItemStart/ItemEnd pair per item, and Over, Back and every ItemStart and
\* ItemEnd carry list type Description.
C4_OtherLabelsAreDescription ==
    Finished =>
        \A labels \in OtherLabelLists :
            m_source_markup = ListDoc(labels)
                => /\ IsListOf(m_tokens, Len(labels))
                   /\ ListCarries(m_tokens, description)

\* C4, amended: a list whose item labels start with a character that is
\* neither '*', a digit nor '[' has one Over, one ItemStart/ItemEnd pair per
\* item, every ItemStart has the label "*", and Over, Back and every
\* ItemStart and ItemEnd carry list type Unordered.
C4_OtherLabelsAreUnordered ==
    Finished =>
        \A labels \in OtherLabelLists :
            m_source_markup = ListDoc(labels)
                => /\ IsListOf(m_tokens, Len(labels))
                   /\ ListCarries(m_tokens, unordered)
                   /\ \A i \in NodesOf(m_tokens, "ItemStart") :
                         m_tokens[i].m_label = <<"*">>

\* a list of two items with such labels has been parsed
C4_Witness ==
    /\ Finished
    /\ m_source_markup = ListDoc(<< <<"a">>, <<"x", " ", "y">> >>)
    /\ Cardinality(NodesOf(m_tokens, "ItemEnd")) = 2
    /\ Cardinality(NodesOf(m_tokens, "Back")) = 1

\* the source is a text, "Z<", a text, ">" and a text
ZapDoc(pre, inner, post) == pre \o <<"Z", "<">> \o inner \o <<">">> \o post

ZapPre(src) == Substr(src, 0, Find(src, "Z"))

ZapBody(src) == SubstrFrom(src, Find(src, "Z") + 2)

ZapInner(src) == Substr(ZapBody(src), 0, Find(ZapBody(src), ">"))

ZapPost(src) == SubstrFrom(ZapBody(src), Find(ZapBody(src), ">") + 1)

\* the texts are letters and spaces, and the one before the span starts an
\* ordinary paragraph
IsZapDoc(src) ==
    /\ Find(src, "Z") >= 0
    /\ At(src, Find(src, "Z") + 1) = "<"
    /\ Find(ZapBody(src), ">") >= 0
    /\ OnlyOf(ZapPre(src), {"a", " "})
    /\ OnlyOf(ZapInner(src), {"a", " "})
    /\ OnlyOf(ZapPost(src), {"a", " "})
    /\ At(src, 0) # " "

TextNode(text) == IF text = <<>> THEN <<>> ELSE <<PodNodeInlineText(text)>>

IsBlockEnd(tok) == Is(tok, "HeadEnd") \/ Is(tok, "ItemEnd") \/ Is(tok, "ParaEnd")

\* how many Z<> spans are open before the i-th token, in its block
RECURSIVE ZapDepth(_, _)
ZapDepth(tokens, i) ==
    IF i <= 1 THEN 0
    ELSE IF IsBlockEnd(tokens[i - 1]) THEN 0
    ELSE IF IsZapStart(tokens[i - 1]) THEN ZapDepth(tokens, i - 1) + 1
    ELSE IF IsZapEnd(tokens[i - 1]) THEN ZapDepth(tokens, i - 1) - 1
    ELSE ZapDepth(tokens, i - 1)

\* C5 as the specification states it: of a paragraph with a terminated Z<...>
\* span the finished tokens hold neither the Zap InlineMarkupStart nor the Zap
\* InlineMarkupEnd nor any text from inside the span, and the InlineText nodes
\* before and after the span are unmodified.
C5_ZapSpanIsAbsent ==
    (Finished /\ IsZapDoc(m_source_markup))
        => m_tokens = <<PodNodeParaStart>> \o TextNode(ZapPre(m_source_markup))
                      \o <<PodNodeInlineText(ZapPost(m_source_markup) \o <<" ">>),
                           PodNodeParaEnd>>

\* C5, amended: after every paragraph that Parse has finished no InlineText node
\* of the tokens lies inside a Z<...> span, and of a paragraph with one terminated Z<...> span the Zap
\* InlineMarkupStart and InlineMarkupEnd remain, next to each other, between
\* the unmodified InlineText nodes before and after the span.
C5_ZapSpanIsEmptied ==
    /\ ~Faulted => \A i \in NodesOf(m_tokens, "InlineText") : ZapDepth(m_tokens, i) = 0
    /\ (Finished /\ IsZapDoc(m_source_markup))
          => m_tokens = <<PodNodeParaStart>> \o TextNode(ZapPre(m_source_markup))
                        \o <<PodNodeInlineMarkupStart("zap"),
                             PodNodeInlineMarkupEnd("zap", <<>>),
                             PodNodeInlineText(ZapPost(m_source_markup) \o <<" ">>),
                             PodNodeParaEnd>>

\* a paragraph with text before, inside and after a Z<...> span has been parsed
C5_Witness ==
    /\ Finished
    /\ m_source_markup = ZapDoc(<<"a">>, <<"a">>, <<"a">>)
    /\ Len(m_tokens) = 6
    /\ IsZapStart(m_tokens[3])

\* the source is "X<<", a keyword and ">>"
IndexDoc(kw) == <<"X", "<", "<">> \o kw \o <<">", ">">>

IndexKeyword(src) == SubSeq(src, 4, Len(src) - 2)

\* a keyword is of letters, spaces and '>'; it does not start with a space,
\* does not end with '>' and has no two '>' in a row
IsIndexKeyword(kw) ==
    /\ OnlyOf(kw, {"a", " ", ">"})
    /\ kw # <<>> => (kw[1] # " " /\ kw[Len(kw)] # ">")
    /\ \A i \in 2..Len(kw) : ~(kw[i - 1] = ">" /\ kw[i] = ">")

IsIndexDoc(src) ==
    /\ Len(src) >= 5
    /\ src = IndexDoc(IndexKeyword(src))
    /\ IsIndexKeyword(IndexKeyword(src))

\* C6: for a terminated X<<kw>> span exactly one InlineMarkupEnd(Index, [kw
\* with every space replaced by '_']) is emitted, the index table maps kw to
\* that anchor, the keyword buffer is empty afterwards, and no character of kw
\* appears in an InlineText node of the paragraph.
C6_IndexSpanLeavesNoTrace ==
    (Finished /\ IsIndexDoc(m_source_markup))
        => /\ \E i \in 1..Len(m_tokens) :
                 /\ NodesOf(m_tokens, "InlineMarkupEnd") = {i}
                 /\ m_tokens[i] = PodNodeInlineMarkupEnd(
                        "index", <<Replace(IndexKeyword(m_source_markup), " ", "_")>>)
           /\ <<IndexKeyword(m_source_markup),
                Replace(IndexKeyword(m_source_markup), " ", "_")>> \in m_idx_keywords
           /\ m_idx_kw = <<>>
           /\ \A i \in NodesOf(m_tokens, "InlineText") : m_tokens[i].m_text = <<" ">>

----------------------------------------------------------------------------
(* Properties of the steps of a parse *)

\* the line loop is about to read a line that is followed by more of the source
Reading == pc = "loop" /\ ss_pos < Len(m_source_markup)

\* the blank line that ends the command paragraph held in the buffer is read
Dispatching(command) ==
    /\ Reading
    /\ m_mode = "command"
    /\ m_current_buffer = command
    /\ NextLine = <<>>

CutCommand == <<"=">> \o kw_cut \o <<" ">>

PodLine == <<"=">> \o kw_pod

\* C7: after a =cut command paragraph has been dispatched the mode is Cut;
\* in Cut every line appends no token and changes no buffer, and the mode
\* stays Cut until a line equal to "=pod" returns it to None.
C7_CutDiscardsUntilPod ==
    [][/\ Dispatching(CutCommand) => m_mode' = "cut"
       /\ (Reading /\ m_mode = "cut")
             => /\ m_tokens' = m_tokens
                /\ m_current_buffer' = m_current_buffer
                /\ m_mode' = IF NextLine = PodLine THEN "none" ELSE "cut"]_vars

DataTags == {<<"h">>}

BeginCommand(tag) == <<"=">> \o kw_begin \o <<" ">> \o tag \o <<" ">>

EndLine(tag) == <<"=">> \o kw_end \o <<" ">> \o tag

\* C8: after a "=begin <tag>" command paragraph has been dispatched the mode
\* is Data and the terminator is "=end <tag>"; in Data every line is
\* accumulated with its newline until a line equal to the terminator, which
\* appends one Data node of the accumulated body and the begin arguments,
\* clears the terminator and the arguments and returns the mode to None.
C8_BeginAccumulatesUntilEnd ==
    [][/\ \A tag \in DataTags :
             Dispatching(BeginCommand(tag))
                 => /\ m_mode' = "data"
                    /\ m_data_end_tag' = EndLine(tag)
       /\ (Reading /\ m_mode = "data")
             => IF NextLine = m_data_end_tag
                THEN /\ m_tokens' = Append(m_tokens,
                                           PodNodeData(m_current_buffer, m_data_args))
                     /\ m_mode' = "none"
                     /\ m_data_end_tag' = <<>>
                     /\ m_data_args' = <<>>
                ELSE /\ m_tokens' = m_tokens
                     /\ m_mode' = "data"
                     /\ m_current_buffer' = m_current_buffer \o NextLine \o <<"\n">>]_vars

ForCommand(format) == <<"=">> \o kw_for \o <<" ">> \o format \o <<" ", "b", " ">>

\* tokens is old with at least n more nodes after it
Extends(tokens, old, n) ==
    /\ Len(tokens) >= Len(old) + n
    /\ SubSeq(tokens, 1, Len(old)) = old

\* C9: a =for command paragraph with an argument appends tokens: ParaStart,
\* the inline parse of the content and ParaEnd if the first argument starts
\* with ':', otherwise one Data node whose argument list is the format name.
C9_ForAppendsTokens ==
    [][/\ Dispatching(ForCommand(<<":", "h">>))
             => /\ Extends(m_tokens', m_tokens, 2)
                /\ m_tokens'[Len(m_tokens) + 1] = PodNodeParaStart
                /\ Last(m_tokens') = PodNodeParaEnd
       /\ Dispatching(ForCommand(<<"h">>))
             => /\ Extends(m_tokens', m_tokens, 1)
                /\ Len(m_tokens') = Len(m_tokens) + 1
                /\ Is(Last(m_tokens'), "Data")
                /\ Last(m_tokens').m_arguments = << <<"h">> >>]_vars

\* C10: Parse runs to completion for every document: it is never left by an
\* exception and never aborts.
C10_ParseNeverAborts == ~Faulted

----------------------------------------------------------------------------
(* Properties of the token sequence *)

\* how many nodes of a kind the first k tokens hold
CountUpTo(tokens, kind, k) == Cardinality({i \in 1..k : Is(tokens[i], kind)})

\* ParaStart and ParaEnd alternate, beginning with ParaStart, and the last
\* ParaStart is closed
ParasAlternate(tokens) ==
    /\ \A k \in 1..Len(tokens) :
          CountUpTo(tokens, "ParaStart", k) - CountUpTo(tokens, "ParaEnd", k) \in {0, 1}
    /\ CountUpTo(tokens, "ParaStart", Len(tokens)) = CountUpTo(tokens, "ParaEnd", Len(tokens))

IsInline(tok) ==
    Is(tok, "InlineMarkupStart") \/ Is(tok, "InlineMarkupEnd") \/ Is(tok, "InlineText")

\* the HeadStart at i is followed by a HeadEnd of its level, inline nodes between
HeadIsClosed(tokens, i) ==
    \E j \in (i + 1)..Len(tokens) :
        /\ tokens[j] = PodNodeHeadEnd(tokens[i].m_level)
        /\ \A m \in (i + 1)..(j - 1) : IsInline(tokens[m])

\* C11: after every dispatched block ParaStart and ParaEnd strictly alternate
\* in the tokens, beginning with ParaStart and every ParaStart closed, and
\* every HeadStart is followed by a HeadEnd of the same level with only inline
\* nodes between them.
C11_ParasAndHeadsAreClosed ==
    pc # "crashed"
        => /\ ParasAlternate(m_tokens)
           /\ \A i \in NodesOf(m_tokens, "HeadStart") : HeadIsClosed(m_tokens, i)

\* a heading with an open Z<> code and a paragraph after it have been parsed
C11_Witness ==
    /\ Finished
    /\ m_source_markup = HeadDoc("2", <<"Z", "<", "a">>)
    /\ Cardinality(NodesOf(m_tokens, "HeadStart")) = 1
    /\ Cardinality(NodesOf(m_tokens, "ParaEnd")) = 1

\* how many nodes of a kind the tokens hold from the k-th on
CountFrom(tokens, kind, k) == Cardinality({i \in k..Len(tokens) : Is(tokens[i], kind)})

\* every opening node can be paired with a closing node of its own after it
PairedLater(tokens, opening, closing) ==
    \A k \in NodesOf(tokens, opening) :
        CountFrom(tokens, opening, k) <= CountFrom(tokens, closing, k)

\* C12: when Parse has completed, for any input, every Over node is paired with
\* a later Back node and every ItemStart node with a later ItemEnd node.
C12_ListsAreClosed ==
    Finished => /\ PairedLater(m_tokens, "Over", "Back")
                /\ PairedLater(m_tokens, "ItemStart", "ItemEnd")

\* C13: in every reachable state the token sequence never holds two
\* consecutive Verbatim nodes.
C13_NoAdjacentVerbatim ==
    \A i \in 1..(Len(m_tokens) - 1) :
        ~(Is(m_tokens[i], "Verbatim") /\ Is(m_tokens[i + 1], "Verbatim"))

\* two verbatim paragraphs with a command that appends nothing between them
\* have been parsed into one node
C13_Witness ==
    /\ Finished
    /\ m_source_markup = JoinBlocks(<< <<" ", "v">>, <<"=">> \o kw_pod, <<" ", "v">> >>)
    /\ m_tokens = <<PodNodeVerbatim(<<"v", "\n", "\n", "v", "\n">>)>>

\* T is one command paragraph whose name no command has
IsUnknownCommandText(T) ==
    /\ T # <<>>
    /\ T[1] = "="
    /\ T[Len(T)] # "\n"
    /\ OnlyOf(T, RawChars)
    /\ \A i \in 2..Len(T) : ~(T[i - 1] = "\n" /\ T[i] = "\n")

AboutToDispatch ==
    /\ pc = "loop"
    /\ m_mode \in {"ordinary", "command"}
    /\ NextLine = <<>>

BufferedKinds == {"escape", "index", "link", "zap", "nbsp"}

\* C15: an unterminated formatting code is closed by the end of its block: at
\* the start of the inline parse of a later block no kind (Escape, Index,
\* Link, Zap, NonBreakingSpace) is active, the escape, keyword and
\* link-content buffers are empty and the link-bar flag is clear, and the
\* plain text of the later block becomes visible InlineText.
C15_OpenCodesEndWithTheirBlock ==
    /\ AboutToDispatch
          => /\ \A t \in BufferedKinds : ~is_inline_mode_active(m_tokens, t)
             /\ m_ecode = <<>>
             /\ m_idx_kw = <<>>
             /\ m_link_content = <<>>
             /\ ~m_link_bar_found
    /\ \A code \in OpenCodes :
          (Finished /\ m_source_markup = OpenCodeDoc(code))
              => /\ Len(m_tokens) >= 3
                 /\ SubSeq(m_tokens, Len(m_tokens) - 2, Len(m_tokens))
                        = <<PodNodeParaStart, PodNodeInlineText(<<"b", " ">>), PodNodeParaEnd>>

----------------------------------------------------------------------------
(* Properties of the mode machine *)

\* str begins with prefix
StartsWith(str, prefix) ==
    Len(str) >= Len(prefix) /\ SubSeq(str, 1, Len(prefix)) = prefix

\* parse_line is called and returns: with the next line of the source, or
\* with the empty line that ends the last element
LineStep == pc = "loop" /\ pc' \in {"loop", "done"}

Blanks == {" ", "\t"}

\* the number of spaces and tabs a line begins with
LeadingBlanks(line) ==
    CHOOSE n \in 0..Len(line) :
        /\ \A i \in 1..n : line[i] \in Blanks
        /\ n < Len(line) => line[n + 1] \notin Blanks

\* the step appends no token and leaves the index table as it was
NothingDispatched ==
    /\ m_tokens' = m_tokens
    /\ m_idx_keywords' = m_idx_keywords

IsTwoVerbatimLines(lines) ==
    /\ Len(lines) = 3
    /\ lines[2] = <<>>
    /\ lines[1] # <<>> /\ lines[1][1] \in Blanks
    /\ lines[3] # <<>> /\ lines[3][1] \in Blanks

\* the two paragraphs both trimmed with the width of the first one
TrimmedWithFirstWidth(lines) ==
    Drop(lines[1], LeadingBlanks(lines[1])) \o <<"\n", "\n">>
        \o Drop(lines[3], LeadingBlanks(lines[1])) \o <<"\n">>

\* C23: the width recorded for a verbatim paragraph is not reset when the
\* paragraph closes, and a verbatim paragraph that immediately follows is
\* trimmed with that same width, the earlier paragraph's, not with a width
\* taken from its own first line.
C23_NextVerbatimUsesEarlierWidth ==
    [][LineStep =>
        /\ (m_mode = "verbatim" /\ NextLine = <<>>)
              => m_verbatim_lead_space' = m_verbatim_lead_space
        /\ (pc' = "done" /\ IsTwoVerbatimLines(Lines(Chomp(m_source_markup))))
              => m_tokens' = <<PodNodeVerbatim(
                                  TrimmedWithFirstWidth(Lines(Chomp(m_source_markup))))>>
      ]_vars

\* every line of a verbatim buffer without its first k characters, each
\* followed by its newline
TrimmedLines(buffer, k) ==
    Concat([i \in 1..Len(Lines(buffer)) |-> Drop(Lines(buffer)[i], k) \o <<"\n">>])

\* C24: when a verbatim paragraph is dispatched while the last token is a
\* Verbatim node, no node is appended and the text of that node becomes its
\* old text, one newline, then the stripped text of the new paragraph: the
\* old text ends with a newline, so one empty line lies between the two.
C24_AdjacentVerbatimIsMerged ==
    [][(/\ LineStep
        /\ m_mode = "verbatim"
        /\ NextLine = <<>>
        /\ m_tokens # <<>>
        /\ Is(Last(m_tokens), "Verbatim"))
          => /\ Len(m_tokens') = Len(m_tokens)
             /\ SubSeq(m_tokens', 1, Len(m_tokens) - 1) = SubSeq(m_tokens, 1, Len(m_tokens) - 1)
             /\ Is(Last(m_tokens'), "Verbatim")
             /\ Last(Last(m_tokens).m_text) = "\n"
             /\ Last(m_tokens').m_text =
                   Last(m_tokens).m_text \o <<"\n">>
                       \o TrimmedLines(m_current_buffer, m_verbatim_lead_space)
      ]_vars

\* a paragraph with a tab in front has been merged into the node of one with
\* a space in front
C24_Witness ==
    /\ Finished
    /\ m_source_markup = <<" ", "v", "\n", "\n", "\t", "v">>
    /\ m_tokens = <<PodNodeVerbatim(<<"v", "\n", "\n", "v", "\n">>)>>

----------------------------------------------------------------------------
(* Properties of the list commands *)

\* the tokens read from the left: for the list that is open after the i-th
\* token and for each list around it, the type of its last ItemStart, or
\* "none" when it has no item. An Over opens a list, a Back closes one.
RECURSIVE OpenLists(_, _, _)
OpenLists(tokens, i, lists) ==
    IF i > Len(tokens) THEN lists
    ELSE OpenLists(tokens, i + 1,
            CASE Is(tokens[i], "Over") -> Append(lists, "none")
              [] Is(tokens[i], "Back") ->
                    (IF Len(lists) > 1 THEN SubSeq(lists, 1, Len(lists) - 1) ELSE <<"none">>)
              [] Is(tokens[i], "ItemStart") ->
                    [lists EXCEPT ![Len(lists)] = tokens[i].m_list_type]
              [] OTHER -> lists)

\* the type of the last ItemStart at the depth the tokens end at, since the
\* Over around it; "none" when there is no such ItemStart
SiblingItem(tokens) == Last(OpenLists(tokens, 1, <<"none">>))

\* the blank line that dispatches a paragraph of the command cmd is read, and
\* parse_line returns
DispatchOf(cmd) ==
    /\ LineStep
    /\ m_mode = "command"
    /\ NextLine = <<>>
    /\ SplitWords(SubstrFrom(m_current_buffer, 1), <<>>) # <<>>
    /\ SplitWords(SubstrFrom(m_current_buffer, 1), <<>>)[1] = cmd

\* C25: an =item emits an ItemEnd before its ItemStart if and only if an
\* ItemStart exists at the same list depth since the enclosing =over; the
\* first =item after an =over emits none, also when the list around it or a
\* nested list closed earlier holds items; the ItemEnd carries the list type
\* of the ItemStart of the same depth that it closes.
C25_ItemClosesItsSibling ==
    [][DispatchOf(kw_item) =>
        /\ Len(m_tokens') > Len(m_tokens) + 1
        /\ SubSeq(m_tokens', 1, Len(m_tokens)) = m_tokens
        /\ IF SiblingItem(m_tokens) = "none"
           THEN Is(m_tokens'[Len(m_tokens) + 1], "ItemStart")
           ELSE /\ m_tokens'[Len(m_tokens) + 1] = PodNodeItemEnd(SiblingItem(m_tokens))
                /\ Is(m_tokens'[Len(m_tokens) + 2], "ItemStart")
      ]_vars

\* =over, =item 1, =over, =back, =item *: the last =item has looked past the
\* nested list and closed the ordered item of its own list
C25_Witness ==
    /\ Finished
    /\ m_source_markup = Concat(<< <<"=">> \o kw_over \o BlankLine,
                                   <<"=">> \o kw_item \o <<" ", "1">> \o BlankLine,
                                   <<"=">> \o kw_over \o BlankLine,
                                   <<"=">> \o kw_back \o BlankLine,
                                   <<"=">> \o kw_item \o <<" ", "*">> \o BlankLine >>)
    /\ Len(m_tokens) = 10
    /\ m_tokens[7] = PodNodeItemEnd(ordered)
    /\ Is(m_tokens[8], "ItemStart")

\* the tokens read from the left: the indices of the Over tokens that no
\* Back has closed after the i-th token, the innermost last
RECURSIVE OpenOvers(_, _, _)
OpenOvers(tokens, i, overs) ==
    IF i > Len(tokens) THEN overs
    ELSE OpenOvers(tokens, i + 1,
            CASE Is(tokens[i], "Over") -> Append(overs, i)
              [] Is(tokens[i], "Back") ->
                    (IF overs # <<>> THEN SubSeq(overs, 1, Len(overs) - 1) ELSE overs)
              [] OTHER -> overs)

\* the tokens with the list type of the innermost open Over, if there is
\* one, set to list_type
WithOpenOverOfType(tokens, overs, list_type) ==
    IF overs = <<>> THEN tokens
    ELSE [tokens EXCEPT ![Last(overs)].m_list_type = list_type]

\* C26: on =back with at least one item at the current depth, exactly the
\* nearest unmatched Over (completed nested Over/Back pairs are skipped) gets
\* the list type of the last item at that depth, the appended Back carries
\* that type, and no other Over is modified.
C26_BackPatchesItsOver ==
    [][DispatchOf(kw_back) /\ SiblingItem(m_tokens) # "none" =>
        m_tokens' = WithOpenOverOfType(m_tokens, OpenOvers(m_tokens, 1, <<>>),
                                       SiblingItem(m_tokens))
                    \o << PodNodeItemEnd(SiblingItem(m_tokens)),
                          PodNodeBack(SiblingItem(m_tokens)) >>
      ]_vars

\* =over, =over, =back, =item 1, =back: the last =back has made the outer
\* Over ordered and left the Over of the empty nested list as it was
C26_Witness ==
    /\ Finished
    /\ m_source_markup = Concat(<< <<"=">> \o kw_over \o BlankLine,
                                   <<"=">> \o kw_over \o BlankLine,
                                   <<"=">> \o kw_back \o BlankLine,
                                   <<"=">> \o kw_item \o <<" ", "1">> \o BlankLine,
                                   <<"=">> \o kw_back \o BlankLine >>)
    /\ Len(m_tokens) = 8
    /\ m_tokens[1] = [PodNodeOver(DefaultIndent) EXCEPT !.m_list_type = ordered]
    /\ m_tokens[2] = PodNodeOver(DefaultIndent)
    /\ m_tokens[8] = PodNodeBack(ordered)

\* C27: a =back with no item at the current depth emits the warning of the
\* empty =over block, appends exactly one Back of type Unordered and no
\* ItemEnd, modifies no Over, and parsing continues in mode None.
C27_EmptyBackIsUnordered ==
    [][DispatchOf(kw_back) /\ SiblingItem(m_tokens) = "none" =>
        /\ m_tokens' = Append(m_tokens, PodNodeBack(unordered))
        /\ cerr' = Append(cerr, <<m_lino', "empty =over block">>)
        /\ m_mode' = "none"
        /\ pc' \in {"loop", "done"}
      ]_vars

\* =over, =item 1, =over, =back, ... : the =back of the nested list has found
\* no item of its own depth although the list around it has one
C27_Witness ==
    /\ pc = "loop"
    /\ ss_pos = 30
    /\ StartsWith(m_source_markup,
                  Concat(<< <<"=">> \o kw_over \o BlankLine,
                            <<"=">> \o kw_item \o <<" ", "1">> \o BlankLine,
                            <<"=">> \o kw_over \o BlankLine,
                            <<"=">> \o kw_back \o BlankLine >>))
    /\ Len(m_tokens) = 6
    /\ m_tokens[6] = PodNodeBack(unordered)
    /\ m_tokens[1] = PodNodeOver(DefaultIndent)
    /\ cerr = << <<8, "empty =over block">> >>
    /\ m_mode = "none"

----------------------------------------------------------------------------
(* Properties of the inline markup engine *)

\* one line of ordinary text in which no '<' follows a letter
IsLetterlessOpenDoc(src) ==
    /\ src # <<>>
    /\ src[1] \notin {"=", " ", "\t"}
    /\ \A i \in 1..Len(src) : src[i] # "\n"
    /\ \E i \in 2..Len(src) : src[i] = "<"
    /\ \A i \in 2..Len(src) : src[i] = "<" => src[i - 1] \notin AsciiLetters

\* C28: a '<' preceded by a character that is no letter pushes no frame and
\* emits no InlineMarkupStart; both characters are emitted as escaped literal
\* text.
C28_OnlyLettersOpenFrames ==
    (Finished /\ IsLetterlessOpenDoc(m_source_markup))
        => /\ NodesOf(m_tokens, "InlineMarkupStart") = {}
           /\ NodesOf(m_tokens, "InlineMarkupEnd") = {}
           /\ cerr = <<>>

\* the source is "L<<", a text u of letters, a bar, a target t of letters,
\* bars and single '>', the closing ">>" and a text v of letters
BarBody(src) == SubstrFrom(src, 3)

BarText(src) == Substr(BarBody(src), 0, Find(BarBody(src), "|"))

AfterBar(src) == SubstrFrom(BarBody(src), Find(BarBody(src), "|") + 1)

BarTarget(src) == Substr(AfterBar(src), 0, FindStr(AfterBar(src), <<">", ">">>))

AfterLink(src) == SubstrFrom(AfterBar(src), FindStr(AfterBar(src), <<">", ">">>) + 2)

IsBarDoc(src) ==
    /\ Substr(src, 0, 3) = <<"L", "<", "<">>
    /\ Find(BarBody(src), "|") >= 0
    /\ OnlyOf(BarText(src), {"a"})
    /\ FindStr(AfterBar(src), <<">", ">">>) >= 0
    /\ OnlyOf(BarTarget(src), {"a", "|", ">"})
    /\ OnlyOf(AfterLink(src), {"a"})

\* the InlineText of a text, if the text is not empty
TextNodeOf(text) == IF text = <<>> THEN <<>> ELSE <<PodNodeInlineText(text)>>

\* the Link start after its close: the link content and the callbacks attached
ClosedLinkStart(content) ==
    [PodNodeInlineMarkupStart("link") EXCEPT !.m_args = <<content>>, !.m_cb = TRUE]

\* the tokens of such a paragraph when nothing after the bar is visible
HiddenTargetTokens(src) ==
    << PodNodeParaStart,
       ClosedLinkStart(BarText(src) \o <<"|">> \o BarTarget(src)) >>
    \o TextNodeOf(BarText(src))
    \o << PodNodeInlineMarkupEnd("link", <<>>),
          PodNodeInlineText(AfterLink(src) \o <<" ">>),
          PodNodeParaEnd >>

\* C29: within an active Link, once a '|' has been read, no further character
\* (the '|' included) is added to a visible InlineText until the Link closes,
\* while the characters keep accumulating in the link content; when the Link
\* closes the bar flag and the link content are cleared and the following text
\* is visible again.
C29_NothingVisibleAfterBar ==
    (Finished /\ IsBarDoc(m_source_markup))
        => /\ m_tokens = HiddenTargetTokens(m_source_markup)
           /\ ~m_link_bar_found
           /\ m_link_content = <<>>

\* the same holds of the targets without a single '>'
StrayFreeTargetIsHidden ==
    (Finished /\ IsBarDoc(m_source_markup) /\ OnlyOf(BarTarget(m_source_markup), {"a", "|"}))
        => /\ m_tokens = HiddenTargetTokens(m_source_markup)
           /\ ~m_link_bar_found
           /\ m_link_content = <<>>

\* the tokens read from the left: the indices of the InlineMarkupStart nodes
\* that an InlineMarkupEnd has closed; open holds the starts not closed yet
RECURSIVE ClosedStarts(_, _, _, _)
ClosedStarts(tokens, i, open, closed) ==
    IF i > Len(tokens) THEN closed
    ELSE IF Is(tokens[i], "InlineMarkupStart")
         THEN ClosedStarts(tokens, i + 1, Append(open, i), closed)
    ELSE IF Is(tokens[i], "InlineMarkupEnd") /\ open # <<>>
         THEN ClosedStarts(tokens, i + 1, SubSeq(open, 1, Len(open) - 1),
                           closed \cup {Last(open)})
    ELSE ClosedStarts(tokens, i + 1, open, closed)

ClosedLinks(tokens) ==
    {i \in ClosedStarts(tokens, 1, <<>>, {}) : tokens[i].m_mtype = "link"}

\* the source has a line that std::stof (an =over with a word that is no
\* number) or std::string::substr (a verbatim line) can throw on
ThrowsElsewhere(src) ==
    \/ FindStr(src, <<"=">> \o kw_over \o <<" ", "x">>) >= 0
    \/ src # <<>> /\ src[1] \in Blanks
    \/ \E i \in 2..Len(src) : src[i - 1] = "\n" /\ src[i] \in Blanks

\* C30: on every close of a Link frame the backward lookup returns the
\* InlineMarkupStart pushed when that frame was opened (the nearest unmatched
\* Link start); the link content and both callbacks are attached to it and to
\* no other node; the error 'no preceeding inline markup start found' is
\* thrown on no input.
C30_LinkCloseFindsItsStart ==
    /\ \A i \in NodesOf(m_tokens, "InlineMarkupStart") :
          IF i \in ClosedLinks(m_tokens)
          THEN m_tokens[i].m_cb /\ Len(m_tokens[i].m_args) = 1
          ELSE ~m_tokens[i].m_cb /\ m_tokens[i].m_args = <<>>
    /\ pc = "thrown" => ThrowsElsewhere(m_source_markup)

\* L<<L<<>>>>: each of the two Link starts has got its own content and the
\* callbacks, the outer one after the inner one was closed
C30_Witness ==
    /\ Finished
    /\ m_source_markup = <<"L", "<", "<", "L", "<", "<", ">", ">", ">", ">">>
    /\ ClosedLinks(m_tokens) = {2, 3}
    /\ m_tokens[2] = ClosedLinkStart(<<>>)
    /\ m_tokens[3] = ClosedLinkStart(<<>>)
    /\ m_tokens[4] = PodNodeInlineMarkupEnd("link", <<>>)
    /\ m_tokens[5] = PodNodeInlineMarkupEnd("link", <<>>)

\* the source is "E<<", a code of letters, spaces and single '>', the closing
\* ">>" and a text v of letters
EscBody(src) == SubstrFrom(src, 3)

EscCode(src) == Substr(EscBody(src), 0, FindStr(EscBody(src), <<">", ">">>))

AfterEsc(src) == SubstrFrom(EscBody(src), FindStr(EscBody(src), <<">", ">">>) + 2)

IsEscDoc(src) ==
    /\ Substr(src, 0, 3) = <<"E", "<", "<">>
    /\ FindStr(EscBody(src), <<">", ">">>) >= 0
    /\ OnlyOf(EscCode(src), {"a", " ", ">"})
    /\ OnlyOf(AfterEsc(src), {"a"})

\* the tokens of such a paragraph when the code is collected and not shown
CollectedCodeTokens(src, code) ==
    << PodNodeParaStart,
       PodNodeInlineMarkupStart("escape"),
       PodNodeInlineMarkupEnd("escape", <<code>>),
       PodNodeInlineText(AfterEsc(src) \o <<" ">>),
       PodNodeParaEnd >>

\* C31: while Escape is active every character between the opening and the
\* closing run is collected in the escape buffer and none is emitted into an
\* InlineText; the close appends exactly one InlineMarkupEnd(Escape, [buffer])
\* and clears the buffer. Stated of the codes that begin with no space (the
\* spaces after the opening run are skipped before the code is read).
C31_EscapeCollectsEveryCharacter ==
    (Finished /\ IsEscDoc(m_source_markup) /\ LeadingBlanks(EscCode(m_source_markup)) = 0)
        => /\ m_tokens = CollectedCodeTokens(m_source_markup, EscCode(m_source_markup))
           /\ m_ecode = <<>>

\* the same holds of the codes without a single '>', less their leading spaces
StrayFreeCodeIsCollected ==
    (Finished /\ IsEscDoc(m_source_markup) /\ OnlyOf(EscCode(m_source_markup), {"a", " "}))
        => /\ m_tokens = CollectedCodeTokens(m_source_markup,
                             Drop(EscCode(m_source_markup),
                                  LeadingBlanks(EscCode(m_source_markup))))
           /\ m_ecode = <<>>

\* the source is "I<I<", a text u of letters, '>', a text w of letters and
\* spaces, and the closing '>'
InnerText(src) == Substr(SubstrFrom(src, 4), 0, Find(SubstrFrom(src, 4), ">"))

OuterText(src) ==
    SubSeq(src, 4 + Find(SubstrFrom(src, 4), ">") + 2, Len(src) - 1)

IsStripDoc(src) ==
    /\ Substr(src, 0, 4) = <<"I", "<", "I", "<">>
    /\ Find(SubstrFrom(src, 4), ">") >= 0
    /\ Len(src) >= 4 + Find(SubstrFrom(src, 4), ">") + 2
    /\ Last(src) = ">"
    /\ OnlyOf(InnerText(src), {"a"})
    /\ OnlyOf(OuterText(src), {"a", " "})

\* text without the spaces it ends with
WithoutTrailingSpaces(text) ==
    SubSeq(text, 1, CHOOSE n \in 0..Len(text) :
                       /\ \A i \in (n + 1)..Len(text) : text[i] = " "
                       /\ n > 0 => text[n] # " ")

\* the InlineText in front of a close, if text was read: without its trailing
\* spaces, possibly empty
StrippedNodeOf(text) ==
    IF text = <<>> THEN <<>> ELSE <<PodNodeInlineText(WithoutTrailingSpaces(text))>>

\* the tokens of such a paragraph when each close strips the text in front of it
StrippedCloseTokens(src) ==
    << PodNodeParaStart,
       PodNodeInlineMarkupStart("italic"),
       PodNodeInlineMarkupStart("italic") >>
    \o TextNodeOf(InnerText(src))
    \o << PodNodeInlineMarkupEnd("italic", <<>>) >>
    \o StrippedNodeOf(OuterText(src))
    \o << PodNodeInlineMarkupEnd("italic", <<>>),
          PodNodeInlineText(<<" ">>),
          PodNodeParaEnd >>

\* C32: on a close, if the last token is an InlineText all its trailing spaces
\* are removed (the text ends up not ending in a space, possibly empty, and no
\* character outside the text is read) before the end node is appended; if the
\* last token is no InlineText nothing is stripped; no other node is modified.
C32_CloseStripsTrailingSpaces ==
    (Ended /\ IsStripDoc(m_source_markup))
        => /\ Finished
           /\ m_tokens = StrippedCloseTokens(m_source_markup)

\* the same holds of the texts that are not made of spaces only
NonBlankTextIsStripped ==
    (Ended /\ IsStripDoc(m_source_markup)
       /\ (OuterText(m_source_markup) = <<>>
           \/ WithoutTrailingSpaces(OuterText(m_source_markup)) # <<>>))
        => /\ Finished
           /\ m_tokens = StrippedCloseTokens(m_source_markup)

----------------------------------------------------------------------------
(* Properties of the zap pass *)

\* the i-th token is a Zap start that a Zap end closes before its block ends
IsClosedZapStart(tokens, i) ==
    /\ IsZapStart(tokens[i])
    /\ \E j \in (i + 1)..Len(tokens) :
          /\ IsZapEnd(tokens[j])
          /\ \A k \in (i + 1)..(j - 1) : ~IsBlockEnd(tokens[k])

\* C33: the zap pass erases every node between a Zap start and its matching
\* Zap end, whatever its kind: text nodes, the start and end nodes of other
\* formatting codes inside the span, and nested Zap start and end nodes.
C33_ZapSpanHoldsNothing ==
    ~Faulted =>
        \A i \in 1..Len(m_tokens) :
            IsClosedZapStart(m_tokens, i) => IsZapEnd(m_tokens[i + 1])

\* the same holds of the nodes that are no start and no end of another code
ZapSpanHoldsOnlyOtherCodes ==
    ~Faulted =>
        \A i \in 1..Len(m_tokens) :
            ZapDepth(m_tokens, i) > 0
                => \/ IsZapEnd(m_tokens[i])
                   \/ Is(m_tokens[i], "InlineMarkupStart") /\ ~IsZapStart(m_tokens[i])
                   \/ Is(m_tokens[i], "InlineMarkupEnd")
                   \/ IsBlockEnd(m_tokens[i])

BlockLevelKinds ==
    {"ParaStart", "ParaEnd", "HeadStart", "HeadEnd", "Over", "ItemStart", "ItemEnd",
     "Back", "Verbatim", "Data"}

IsBlockLevel(tok) == tok.k \in BlockLevelKinds

\* the node is still there after a step: as it was, or, for the nodes that
\* =back and a further verbatim paragraph write to, as a node of its kind
Survives(old, new) ==
    /\ new.k = old.k
    /\ old.k \notin {"Over", "Verbatim"} => new = old

\* C34: when a Z< is unterminated, erasure stops at the first HeadEnd, ItemEnd
\* or ParaEnd after it: in every run of the zap pass (it scans the whole token
\* list after each inline parse) that node and all nodes of later blocks
\* survive, and the zap pass never removes a block-level node.
C34_ZapStopsAtBlockEnd ==
    [][LineStep =>
        /\ Len(m_tokens') >= Len(m_tokens)
        /\ \A i \in 1..Len(m_tokens) : Survives(m_tokens[i], m_tokens'[i])
        /\ SelectSeq(zap_tokens(m_tokens'), IsBlockLevel) = SelectSeq(m_tokens', IsBlockLevel)
      ]_vars

\* Z<a, then a paragraph: the zap passes of the second paragraph have left the
\* ParaEnd of the first and the whole second paragraph in place
C34_Witness ==
    /\ Finished
    /\ m_source_markup = OpenCodeDoc(<<"Z", "<", "a">>)
    /\ m_tokens = << PodNodeParaStart, PodNodeInlineMarkupStart("zap"), PodNodeParaEnd,
                     PodNodeParaStart, PodNodeInlineText(<<"b", " ">>), PodNodeParaEnd >>

\* the tokens from the i-th on are properly nested in each block: open holds
\* the kinds of the InlineMarkupStart nodes of the block not closed yet
RECURSIVE NestedFrom(_, _, _)
NestedFrom(tokens, i, open) ==
    IF i > Len(tokens) THEN TRUE
    ELSE IF IsBlockLevel(tokens[i]) THEN NestedFrom(tokens, i + 1, <<>>)
    ELSE IF Is(tokens[i], "InlineMarkupStart")
         THEN NestedFrom(tokens, i + 1, Append(open, tokens[i].m_mtype))
    ELSE IF Is(tokens[i], "InlineMarkupEnd")
         THEN /\ open # <<>>
              /\ Last(open) = tokens[i].m_mtype
              /\ NestedFrom(tokens, i + 1, SubSeq(open, 1, Len(open) - 1))
    ELSE NestedFrom(tokens, i + 1, open)

ProperlyNested(tokens) == NestedFrom(tokens, 1, <<>>)

\* C37: in every token sequence, before and after the zap pass, the inline
\* markup nodes of each block are properly nested: read from the left, every
\* InlineMarkupEnd has the kind of the nearest InlineMarkupStart of its block
\* that is not closed yet, so a '>' read while no frame is open gives no
\* InlineMarkupEnd. After the zap pass: the tokens after every line; before
\* it: the tokens the loop of parse_inline leaves for a paragraph.
C37_InlineMarkupIsNested ==
    [][pc = "loop" =>
        /\ ProperlyNested(m_tokens')
        /\ (m_mode = "ordinary" /\ NextLine = <<>>)
              => \A ub \in UBOutcomes :
                    ProperlyNested(InlineLoop(PushToken(Self, PodNodeParaStart),
                                              m_current_buffer, 0, <<>>, ub).m_tokens)
      ]_vars

\* Z<Z<>>>: the nested Zap pair is erased, the outer pair is left, and the
\* third '>' is text
C37_Witness ==
    /\ Finished
    /\ m_source_markup = <<"Z", "<", "Z", "<", ">", ">", ">">>
    /\ m_tokens = << PodNodeParaStart, PodNodeInlineMarkupStart("zap"),
                     PodNodeInlineMarkupEnd("zap", <<>>),
                     PodNodeInlineText(<<"&", "g", "t", ";", " ">>), PodNodeParaEnd >>

----------------------------------------------------------------------------
(* Properties of the rendering *)

Rendered == pc = "rendered"

\* the source is one paragraph of one link, L<arg>, and arg holds no angle
\* bracket and no newline
IsLinkDoc(src) ==
    /\ Len(src) >= 4
    /\ SubSeq(src, 1, 2) = <<"L", "<">>
    /\ SubSeq(src, Len(src) - 1, Len(src)) = <<">", "\n">>
    /\ \A i \in 3..(Len(src) - 2) : src[i] \notin {"<", ">", "\n"}

\* the target of the link of such a source: what follows its first bar
DocTarget(src) == LinkTargetOf(SubSeq(src, 3, Len(src) - 2))

HasHash(t) == Find(t, "#") # -1

HasColons(t) == FindStr(t, <<":", ":">>) # -1

IsUrl(t) == FindStr(t, <<":", "/", "/">>) # -1

\* the target is looked up as a method: it is no URL and no man page and
\* holds one of the two delimiters
IsMethodTarget(t) == ~IsUrl(t) /\ ~check_manpage(t) /\ (HasHash(t) \/ HasColons(t))

\* the delimiter of t that occurs first
FirstDelimiter(t) ==
    IF ~HasHash(t) THEN FindStr(t, <<":", ":">>)
    ELSE IF ~HasColons(t) THEN Find(t, "#")
    ELSE IF Find(t, "#") < FindStr(t, <<":", ":">>) THEN Find(t, "#")
    ELSE FindStr(t, <<":", ":">>)

\* the callbacks called when t is split at pos: the class name is the text
\* before pos (none is looked up when it is empty), the method name the text
\* after the delimiter
SplitCalls(t, pos, is_cmethod) ==
    {<<"mname", is_cmethod, SubstrFrom(t, IF is_cmethod THEN pos + 2 ELSE pos + 1)>>}
    \cup (IF pos = 0 THEN {} ELSE {<<"filename", Substr(t, 0, pos)>>})

SplitAtFirst(t, pos) == SplitCalls(t, pos, pos = FindStr(t, <<":", ":">>))

\* C16, as stated: for a link target holding `#' and/or `::' the delimiter
\* that occurs first is honoured: the class name is the text before it, the
\* method name the text after it, and is_cmethod is true iff it is `::'.
C16_FirstDelimiterIsHonoured ==
    Rendered /\ IsLinkDoc(m_source_markup) /\ IsMethodTarget(DocTarget(m_source_markup))
        => calls = SplitAtFirst(DocTarget(m_source_markup),
                                FirstDelimiter(DocTarget(m_source_markup)))

SplitAtHashOrColons(t) ==
    IF HasHash(t) THEN SplitCalls(t, Find(t, "#"), FALSE)
    ELSE SplitCalls(t, FindStr(t, <<":", ":">>), TRUE)

\* C16, amended: for a link target that is looked up as a method, the first
\* `#' is honoured whenever the target holds a `#', also when a `::' occurs
\* before it, and is_cmethod is then false; the first `::' is honoured, with
\* is_cmethod true, only when the target holds no `#'. The class name is the
\* text before the honoured delimiter and the method name the text after it.
C16_HashIsHonouredBeforeColons ==
    Rendered /\ IsLinkDoc(m_source_markup) /\ IsMethodTarget(DocTarget(m_source_markup))
        => calls = SplitAtHashOrColons(DocTarget(m_source_markup))

\* L<a::#> has been rendered: the class is "a::" and the method is empty
C16_Witness ==
    /\ Rendered
    /\ m_source_markup = LinkDoc(<<"a", ":", ":", "#">>)
    /\ calls = {<<"filename", <<"a", ":", ":">>>>, <<"mname", FALSE, <<>>>>}

\* the start of what is rendered for a paragraph that begins with a direct
\* hyperlink to t
DirectLink(t) ==
    <<"<", "p", ">", "<", "a", " ", "h", "r", "e", "f", "=", "\"">> \o t \o <<"\"", ">">>

\* C17: a Link start whose target holds `://' is rendered as a direct
\* hyperlink to the target, and neither the callback for file names nor the
\* one for method anchors is called, whatever else the target holds.
C17_UrlIsLinkedDirectly ==
    Rendered /\ IsLinkDoc(m_source_markup) /\ IsUrl(DocTarget(m_source_markup))
        => /\ calls = {}
           /\ StartsWith(result, DirectLink(DocTarget(m_source_markup)))

\* L<#://(1)> has been rendered: its target holds a `#' and ends as the name
\* of a man page does
C17_Witness ==
    /\ Rendered
    /\ m_source_markup = LinkDoc(<<"#", ":", "/", "/", "(", "1", ")">>)
    /\ calls = {}
    /\ StartsWith(result, DirectLink(<<"#", ":", "/", "/", "(", "1", ")">>))

----------------------------------------------------------------------------
(* Properties of the commands that are ignored *)

\* the commands parse_command has a branch for
HandledCommands ==
    {kw_head \o <<"1">>, kw_head \o <<"2">>, kw_head \o <<"3">>, kw_head \o <<"4">>,
     kw_cut, kw_over, kw_item, kw_back, kw_begin, <<"=">> \o kw_for}

\* the command paragraph with these words names =pod, =encoding or a command
\* that is not recognized
IsIgnoredCommand(words) ==
    /\ words # <<>>
    /\ words[1] \in {kw_pod, kw_encoding} \/ words[1] \notin HandledCommands

\* the blank line or the end of the input that dispatches such a paragraph is
\* about to be read
DispatchingIgnored ==
    /\ pc = "loop"
    /\ m_mode = "command"
    /\ NextLine = <<>>
    /\ IsIgnoredCommand(SplitWords(SubstrFrom(m_current_buffer, 1), <<>>))

\* C20: the dispatch of a =pod, an =encoding or an unrecognized command
\* paragraph leaves the tokens and the index table as they were and returns
\* the mode to None with an empty buffer.
C20_IgnoredCommandsChangeNothing ==
    [][DispatchingIgnored
          => /\ m_tokens' = m_tokens
             /\ m_idx_keywords' = m_idx_keywords
             /\ m_mode' = "none"
             /\ m_current_buffer' = <<>>]_vars

\* =u has been dispatched after a heading: the tokens are the heading's
C20_Witness ==
    /\ Finished
    /\ m_source_markup = <<"=">> \o kw_head \o <<"1", " ", "a">> \o BlankLine
                            \o <<"=", "u">> \o BlankLine
    /\ m_tokens # <<>>
    /\ Is(Last(m_tokens), "HeadEnd")
    /\ cerr # <<>>
    /\ Last(cerr)[2] = "unknown command"
    /\ m_mode = "none"
    /\ m_current_buffer = <<>>

----------------------------------------------------------------------------
(* Properties of a parser that is used again *)

\* C19: after Reset(s) and Parse() the tokens and the index table are those
\* of a freshly constructed parser given s after its Parse(), whatever was
\* parsed before the Reset.
C19_ResetIsAsFresh ==
    Finished /\ resets > 0
        => \E ub \in UBOutcomes :
              /\ m_tokens = Parse(FreshParser, m_source_markup, ub).m_tokens
              /\ m_idx_keywords = Parse(FreshParser, m_source_markup, ub).m_idx_keywords

\* the target holds no space and ends with '(', one decimal digit and ')'
EndsAsManpage(t) ==
    /\ \A i \in 1..Len(t) : t[i] # " "
    /\ Len(t) >= 3
    /\ t[Len(t) - 2] = "("
    /\ IsDigit(t[Len(t) - 1])
    /\ t[Len(t)] = ")"

\* the start of what is rendered for a paragraph that begins with a link to
\* a man page
ManpagePrefix ==
    <<"<", "p", ">", "<", "a", " ", "h", "r", "e", "f", "=", "\"",
      "h", "t", "t", "p", "s", ":", "/", "/", "l", "i", "n", "u", "x", ".",
      "d", "i", "e", ".", "n", "e", "t", "/", "m", "a", "n", "/">>

ManpageHref(section, name) == ManpagePrefix \o section \o <<"/">> \o name \o <<"\"", ">">>

\* the text of t before its last three characters
BeforeSection(t) == SubSeq(t, 1, Len(t) - 3)

\* C35: for every target, the empty one and those shorter than three
\* characters included, check_manpage returns true exactly when the target
\* holds no space and ends with '(', one decimal digit and ')'; manpage is then
\* the text before that '(' and section the digit. Seen where the function is
\* called: in the rendering of a link whose target is no URL.
C35_ManpageEndsWithSection ==
    (Rendered /\ IsLinkDoc(m_source_markup) /\ m_source_markup[3] # " "
       /\ ~IsUrl(DocTarget(m_source_markup)))
        => IF EndsAsManpage(DocTarget(m_source_markup))
           THEN StartsWith(result,
                           ManpageHref(<<DocTarget(m_source_markup)[Len(DocTarget(m_source_markup)) - 1]>>,
                                       BeforeSection(DocTarget(m_source_markup))))
           ELSE ~StartsWith(result, ManpagePrefix)

\* the same holds of the targets that are not two characters long
LongTargetEndsWithSection ==
    (Rendered /\ IsLinkDoc(m_source_markup) /\ m_source_markup[3] # " "
       /\ ~IsUrl(DocTarget(m_source_markup))
       /\ Len(DocTarget(m_source_markup)) # 2)
        => IF EndsAsManpage(DocTarget(m_source_markup))
           THEN StartsWith(result,
                           ManpageHref(<<DocTarget(m_source_markup)[Len(DocTarget(m_source_markup)) - 1]>>,
                                       BeforeSection(DocTarget(m_source_markup))))
           ELSE ~StartsWith(result, ManpagePrefix)

\* the source is a heading and a paragraph with a link to a section
IsAnchorDoc(src) ==
    /\ StartsWith(src, <<"=">> \o kw_head)
    /\ FindStr(src, <<"L", "<", "/">>) >= 0

\* the title of the heading of such a source, and the section its link names
TitleOf(src) == Substr(src, 7, FindStr(src, BlankLine) - 7)

SectionOf(src) ==
    SubSeq(src, FindStr(src, <<"L", "<", "/">>) + 4, Len(src) - 2)

\* what follows the first occurrence of the attribute in str, up to the
\* quotation mark that ends its value
ValueOf(str, attribute) ==
    Substr(SubstrFrom(str, FindStr(str, attribute) + Len(attribute)), 0,
           Find(SubstrFrom(str, FindStr(str, attribute) + Len(attribute)), "\""))

\* C36: for a heading =headN T and a link L</T> to a section of the same
\* document with the same title T, the anchor in the href rendered for the
\* link equals the id rendered for the heading.
C36_LinkFindsItsHeading ==
    (Rendered /\ IsAnchorDoc(m_source_markup)
       /\ TitleOf(m_source_markup) = SectionOf(m_source_markup))
        => /\ FindStr(result, <<"i", "d", "=", "\"">>) >= 0
           /\ FindStr(result, <<"h", "r", "e", "f", "=", "\"", "#">>) >= 0
           /\ ValueOf(result, <<"i", "d", "=", "\"">>)
                = ValueOf(result, <<"h", "r", "e", "f", "=", "\"", "#">>)

\* the anchor of the link is that of the title; the id of the heading is that
\* of the title and the space that ends the line of the command
HeadingIdHasTrailingSpace ==
    (Rendered /\ IsAnchorDoc(m_source_markup))
        => /\ ValueOf(result, <<"h", "r", "e", "f", "=", "\"", "#">>)
                = MakeHeadingAnchorName(SectionOf(m_source_markup))
           /\ ValueOf(result, <<"i", "d", "=", "\"">>)
                = MakeHeadingAnchorName(TitleOf(m_source_markup) \o <<" ">>)

----------------------------------------------------------------------------
(* Properties of two parsers side by side *)

\* the tokens and the index table are those a parser that runs alone ends
\* with, given the source str
AsAlone(tokens, idx_keywords, str) ==
    \E ub \in UBOutcomes :
       /\ Parse(FreshParser, str, ub).fault = "none"
       /\ tokens = Parse(FreshParser, str, ub).m_tokens
       /\ idx_keywords = Parse(FreshParser, str, ub).m_idx_keywords

====
